---- MODULE Spec2Model ----
(***************************************************************************)
(* figma-html-importer: the plugin's main thread (code.ts), its UI        *)
(* (ui/App.tsx) and the DOM serializer (domSerializer.ts) as state        *)
(* machines.                                                               *)
(*                                                                         *)
(* Conventions.  A CSS string that the code only tests and parses is a    *)
(* record of its syntactic form and its numbers; a font style name is the *)
(* sequence of its space-separated words; a text is the sequence of its   *)
(* characters.  An optional field that is absent (undefined) is Null; an  *)
(* absent text and an absent list of segments are the empty sequence (the *)
(* code takes the absent and the empty one alike).                        *)
(***************************************************************************)
EXTENDS Integers, Sequences, FiniteSets, TLC

VARIABLES
    \* ---- main thread (code.ts) ----
    inbox,        \* the messages the UI side posts, in order
    delivered,    \* how many of them figma.ui.onmessage has been called with
    running,      \* the handler holding the JS thread, 0 when the thread is idle
    frameCount,   \* code.ts:423
    textCount,    \* code.ts:424
    pc,           \* per handler: where it is
    stack,        \* per handler: the buildTree activations, the root frame first
    font,         \* per handler: the loadBestFont call it is suspended in
    tnode,        \* per handler: the text leaf under construction
    replies,      \* what figma.ui.postMessage has sent, in order
    page,         \* the handlers whose root frame is on figma.currentPage, in order
    console,      \* what console.error has logged, in order
    catalog,      \* the fonts figma.loadFontAsync can load
    lbf,          \* a call of loadBestFont taken alone: [family, style, call]
    dom,          \* a call of serializeDom taken alone: [el, out, returned,
                  \* threw, converted, absolute]
    ui,           \* the plugin UI (App.tsx): its state, its document, its call
                  \* of handleImport and what it has posted
    leaf          \* a text leaf built alone (code.ts:432-602): [node, pc, fontName, out]

hvars == <<inbox, delivered, running, frameCount, textCount, pc, stack, font,
           tnode, replies, page, console, catalog>>

\* what the handlers of the main thread leave alone
ovars == <<lbf, dom, ui, leaf>>

vars == <<hvars, ovars>>

Null == [null |-> TRUE]

Max(a, b) == IF a >= b THEN a ELSE b

Range(s) == {s[i] : i \in 1..Len(s)}

\* ------------------------------------------------------------------------
\* Colours (code.ts:18-81).  A colour string is [form, r, g, b, a]: form is
\* the syntax it is written in, r g b the three channel numbers as written
\* (in thousandths for color(srgb ...), whose channels run from 0 to 1) and a
\* the alpha in thousandths (1000 when no alpha is written).  A parsed
\* channel is the fraction <<numerator, denominator>> of full intensity.
\* ------------------------------------------------------------------------
Css(form, r, g, b, a) == [form |-> form, r |-> r, g |-> g, b |-> b, a |-> a]

Transparent == Css("transparent", 0, 0, 0, 0)

Rgb(r, g, b) == Css("legacy", r, g, b, 1000)

\* The three regular expressions of parseColor: legacy comma form, modern
\* space form, color(srgb ...).  Anything else (hex, a keyword) is null.
parseColor(css) ==
    IF css.form \in {"empty", "transparent", "none"} THEN Null
    ELSE IF css.form \in {"legacy", "modern"}
         THEN [rgb |-> <<<<css.r, 255>>, <<css.g, 255>>, <<css.b, 255>>>>, a |-> css.a]
         ELSE IF css.form = "srgb"
              THEN [rgb |-> <<<<css.r, 1000>>, <<css.g, 1000>>, <<css.b, 1000>>>>,
                    a |-> css.a]
              ELSE Null

isTransparent(css) ==
    IF css.form \in {"empty", "transparent", "none"} THEN TRUE
    ELSE LET c == parseColor(css) IN c # Null /\ c.a < 10

\* toSolidPaint without its test of the alpha
toSolidPaintAny(css) ==
    LET c == parseColor(css)
    IN  IF c = Null THEN Null
        ELSE [type |-> "SOLID", color |-> c.rgb, opacity |-> c.a]

toSolidPaint(css) ==
    LET c == parseColor(css)
    IN  IF c = Null \/ c.a < 10 THEN Null
        ELSE [type |-> "SOLID", color |-> c.rgb, opacity |-> c.a]

\* ------------------------------------------------------------------------
\* Fonts (code.ts:86-203)
\* ------------------------------------------------------------------------
\* The entries of FONT_MAP for the family names the model writes.
FONT_MAP ==
    [f \in {"inter", "roboto", "pretendard", "noto sans kr", "malgun gothic",
            "sans-serif"} |->
        CASE f = "inter" -> "Inter"
          [] f = "roboto" -> "Roboto"
          [] f = "pretendard" -> "Pretendard"
          [] f = "noto sans kr" -> "Noto Sans KR"
          [] f = "malgun gothic" -> "Noto Sans KR"
          [] f = "sans-serif" -> "Inter"]

\* f.trim().replace(/['"]/g, '').toLowerCase() on the names the model writes
\* (a name it does not list is already lower case)
toLowerCase(f) ==
    CASE f = "Inter" -> "inter"
      [] f = "Roboto" -> "roboto"
      [] f = "Pretendard" -> "pretendard"
      [] f = "Noto Sans KR" -> "noto sans kr"
      [] f = "Malgun Gothic" -> "malgun gothic"
      [] OTHER -> f

\* cssFontFamily is the comma-separated list, as a sequence
mapFontFamily(cssFontFamily) ==
    LET hits == {i \in 1..Len(cssFontFamily) :
                    toLowerCase(cssFontFamily[i]) \in DOMAIN FONT_MAP}
    IN  IF hits = {} THEN "Inter"
        ELSE LET i == CHOOSE j \in hits : \A k \in hits : j <= k
             IN  FONT_MAP[toLowerCase(cssFontFamily[i])]

\* weight is what parseInt(weight) gives, 0 when it gives NaN
weightToFigmaStyle(weight, italic) ==
    LET w == IF weight = 0 THEN 400 ELSE weight
        style == IF w >= 900 THEN <<"Black">>
                 ELSE IF w >= 800 THEN <<"ExtraBold">>
                 ELSE IF w >= 700 THEN <<"Bold">>
                 ELSE IF w >= 600 THEN <<"SemiBold">>
                 ELSE IF w >= 500 THEN <<"Medium">>
                 ELSE IF w >= 300 THEN <<"Light">>
                 ELSE IF w >= 200 THEN <<"ExtraLight">>
                 ELSE IF w >= 100 THEN <<"Thin">>
                 ELSE <<"Regular">>
    IN  IF italic THEN style \o <<"Italic">> ELSE style

KOREAN_FAMILIES ==
    {"Pretendard", "Noto Sans KR", "Apple SD Gothic Neo", "Malgun Gothic", "NanumGothic"}

FontName(family, style) == [family |-> family, style |-> style]

\* s.replace(from, to) on word sequences: the first occurrence of the words
\* `from` becomes the words `to`
ReplaceFirst(s, from, to) ==
    LET n == Len(from)
        at == {i \in 1..(Len(s) - n + 1) : SubSeq(s, i, i + n - 1) = from}
    IN  IF at = {} THEN s
        ELSE LET i == CHOOSE j \in at : \A k \in at : j <= k
             IN  SubSeq(s, 1, i - 1) \o to \o SubSeq(s, i + n, Len(s))

\* style.replace(' Italic', ''): the first word Italic that follows a space
ReplaceItalic(s) ==
    LET at == {i \in 2..Len(s) : s[i] = "Italic"}
    IN  IF at = {} THEN s
        ELSE LET i == CHOOSE j \in at : \A k \in at : j <= k
             IN  SubSeq(s, 1, i - 1) \o SubSeq(s, i + 1, Len(s))

\* code.ts:161-192, the candidate list of loadBestFont
candidates(family, style) ==
    LET spaced == ReplaceFirst(ReplaceFirst(ReplaceFirst(style,
                      <<"SemiBold">>, <<"Semi", "Bold">>),
                      <<"ExtraBold">>, <<"Extra", "Bold">>),
                      <<"ExtraLight">>, <<"Extra", "Light">>)
        compact == ReplaceFirst(ReplaceFirst(ReplaceFirst(style,
                      <<"Semi", "Bold">>, <<"SemiBold">>),
                      <<"Extra", "Bold">>, <<"ExtraBold">>),
                      <<"Extra", "Light">>, <<"ExtraLight">>)
    IN  <<FontName(family, style)>>
        \o (IF spaced # style THEN <<FontName(family, spaced)>> ELSE <<>>)
        \o (IF compact # style THEN <<FontName(family, compact)>> ELSE <<>>)
        \o <<FontName(family, ReplaceItalic(style)), FontName(family, <<"Regular">>)>>
        \o (IF family # "Noto Sans KR" /\ family \in KOREAN_FAMILIES
            THEN <<FontName("Noto Sans KR", style),
                   FontName("Noto Sans KR", ReplaceItalic(style)),
                   FontName("Noto Sans KR", <<"Regular">>)>>
            ELSE <<>>)
        \o <<FontName("Inter", <<"Regular">>)>>

\* A call of loadBestFont.  It is suspended in figma.loadFontAsync(candidates[k])
\* while status is "pending"; attempts lists the fonts it has asked for.
loadBestFont(family, style) ==
    LET c == candidates(family, style)
    IN  [candidates |-> c, k |-> 1, attempts |-> <<c[1]>>,
         status |-> "pending", result |-> Null]

\* figma.loadFontAsync(fn) settles: it resolves when the catalog has fn
loadFontAsync(fn, cat) == fn \in cat

\* The loop without its try: the first load that rejects ends the call
lbfSettledUncaught(c, ok) ==
    IF ok THEN [c EXCEPT !.status = "returned", !.result = c.candidates[c.k]]
    ELSE [c EXCEPT !.status = "thrown"]

\* code.ts:194-202, one turn of the for loop once the pending load has settled
lbfSettled(c, ok) ==
    IF ok THEN [c EXCEPT !.status = "returned", !.result = c.candidates[c.k]]
    ELSE IF c.k < Len(c.candidates)
         THEN [c EXCEPT !.k = c.k + 1,
                        !.attempts = Append(c.attempts, c.candidates[c.k + 1])]
         ELSE [c EXCEPT !.status = "thrown"]

\* ------------------------------------------------------------------------
\* Gradients (code.ts:250-344).  A background-image string is [kind]: "none",
\* "empty", "url" or "linear-gradient" with the angle argument
\* ([form |-> "absent" | "deg" | "to" | "turn", deg]: the unit it is written
\* in and the degrees it denotes) and the stop arguments ([color, pos]: pos
\* the written percentage, -1 when none is written).
\* ------------------------------------------------------------------------
BgNone == [kind |-> "none"]

Hex(n, r, g, b, a) == [form |-> "hex", n |-> n, r |-> r, g |-> g, b |-> b, a |-> a]

\* a colour keyword
Named(name) == [form |-> "named", name |-> name]

\* code.ts:329-344: 3, 6 or 8 hex digits; a is the alpha byte
parseHexColor(hex) ==
    IF hex.form # "hex" \/ hex.n \notin 3..8 THEN Null
    ELSE IF hex.n \in {3, 6}
         THEN [rgb |-> <<<<hex.r, 255>>, <<hex.g, 255>>, <<hex.b, 255>>>>, a |-> 1000]
         ELSE IF hex.n = 8
              THEN [rgb |-> <<<<hex.r, 255>>, <<hex.g, 255>>, <<hex.b, 255>>>>,
                    a |-> (hex.a * 1000) \div 255]
              ELSE Null

\* code.ts:250-326.  A stop position is the fraction <<numerator, denominator>>.
parseLinearGradient(css) ==
    IF css.kind # "linear-gradient" THEN Null
    ELSE
    LET written == css.angle.form # "absent"
        \* 261-275: the first argument is taken for the angle when it ends
        \* in deg or begins with to; an angle in another unit is left among
        \* the stops, where no colour is read from it
        hasAngle == css.angle.form \in {"deg", "to"}
        nParts == (IF written THEN 1 ELSE 0) + Len(css.stops)
        angleDeg == IF hasAngle THEN css.angle.deg ELSE 180
        stopParts == (IF written /\ ~hasAngle
                      THEN <<[color |-> [form |-> "angle"], pos |-> -1]>> ELSE <<>>)
                     \o css.stops
        n == Len(stopParts)
        parsedAt(i) == LET c == parseColor(stopParts[i].color)
                       IN  IF c # Null THEN c ELSE parseHexColor(stopParts[i].color)
        positionAt(i) == IF stopParts[i].pos >= 0 THEN <<stopParts[i].pos, 100>>
                         ELSE <<i - 1, Max(n - 1, 1)>>
        kept == SelectSeq([i \in 1..n |-> i], LAMBDA i : parsedAt(i) # Null)
        gradientStops == [j \in 1..Len(kept) |->
                            [position |-> positionAt(kept[j]),
                             color |-> parsedAt(kept[j])]]
    IN  IF nParts < 2 \/ Len(gradientStops) < 2 THEN Null
        ELSE [type |-> "GRADIENT_LINEAR", angleDeg |-> angleDeg,
              gradientStops |-> gradientStops, opacity |-> 1000]

\* ------------------------------------------------------------------------
\* Canvas nodes.  One record shape for frames, texts and rectangles; src is the
\* path (child indices from the root) of the IR node a node was built for.
\* ------------------------------------------------------------------------
NewNode(type, name) ==
    [type |-> type, name |-> name, src |-> <<>>, x |-> 0, y |-> 0,
     width |-> 100, height |-> 100, visible |-> TRUE, opacity |-> 1000,
     fills |-> <<>>, strokes |-> <<>>, clipsContent |-> TRUE, children |-> <<>>,
     characters |-> <<>>, fontName |-> Null, textAutoResize |-> "NONE",
     ranges |-> <<>>, aligned |-> {}]

createFrame == NewNode("FRAME", "Frame")

createRectangle == NewNode("RECTANGLE", "Rectangle")

createText == [NewNode("TEXT", "Text") EXCEPT !.textAutoResize = "WIDTH_AND_HEIGHT"]

appendChild(parent, child) == [parent EXCEPT !.children = Append(parent.children, child)]

\* code.ts:366-388 (the paint; the weights are not modelled)
applyStrokes(frame, s) ==
    LET maxW == Max(Max(s.borderTopWidth, s.borderRightWidth),
                    Max(s.borderBottomWidth, s.borderLeftWidth))
        paint == toSolidPaint(s.borderColor)
    IN  IF maxW <= 0 \/ s.borderStyle = "none" \/ isTransparent(s.borderColor)
        THEN frame
        ELSE IF paint = Null THEN frame
             ELSE [frame EXCEPT !.strokes = <<paint>>]

\* applyFrameStyle without lines 402-405: no solid fill under a background
\* image that is not a gradient
applyFrameStyleNoFallback(frame, s) ==
    LET solid == toSolidPaint(s.backgroundColor)
        grad == parseLinearGradient(s.backgroundImage)
        fills == IF s.backgroundImage.kind \notin {"none", "empty"}
                 THEN IF grad # Null THEN <<grad>> ELSE <<>>
                 ELSE IF solid # Null THEN <<solid>> ELSE <<>>
        f1 == [frame EXCEPT !.fills = fills,
                            !.opacity = IF s.opacity < 1000 THEN s.opacity ELSE @]
    IN  [applyStrokes(f1, s) EXCEPT !.clipsContent = s.overflow \in {"hidden", "clip"}]

\* code.ts:395-419 (corner radius and effects are not modelled)
applyFrameStyle(frame, s) ==
    LET solid == toSolidPaint(s.backgroundColor)
        grad == parseLinearGradient(s.backgroundImage)
        fills == IF s.backgroundImage.kind \notin {"none", "empty"}
                 THEN IF grad # Null THEN <<grad>>
                      ELSE IF solid # Null THEN <<solid>> ELSE <<>>
                 ELSE IF solid # Null THEN <<solid>> ELSE <<>>
        f1 == [frame EXCEPT !.fills = fills,
                            !.opacity = IF s.opacity < 1000 THEN s.opacity ELSE @]
    IN  [applyStrokes(f1, s) EXCEPT !.clipsContent = s.overflow \in {"hidden", "clip"}]

\* ------------------------------------------------------------------------
\* buildTree, the text leaf (code.ts:432-602)
\* ------------------------------------------------------------------------
isItalic(style) == style.fontStyle \in {"italic", "oblique"}

hasBorder(style) ==
    /\ Max(Max(style.borderTopWidth, style.borderRightWidth),
           Max(style.borderBottomWidth, style.borderLeftWidth)) > 0
    /\ style.borderStyle # "none"
    /\ ~isTransparent(style.borderColor)

hasBg(style) ==
    \/ ~isTransparent(style.backgroundColor)
    \/ style.backgroundImage.kind \notin {"empty", "none"}

\* the test of line 508 with <= for <
isSingleLineInclusive(node) == 2 * Max(node.rect.height, 1) <= 7 * node.style.fontSize

\* h < style.fontSize * 3.5
isSingleLine(node) == 2 * Max(node.rect.height, 1) < 7 * node.style.fontSize

\* calcFixedWidth without its estimate
calcFixedWidthAlways(node, containerW) == containerW

\* containerW > estMin * 1.5 ? containerW : 0
calcFixedWidth(node, containerW) ==
    LET estMin == node.style.fontSize * Len(node.text)
    IN  IF 2 * containerW > 3 * estMin THEN containerW ELSE 0

isBlockDisplay(style) == style.display \in {"block", "flex", "grid", "list-item", "table"}

isFlex(style) == style.display \in {"flex", "inline-flex"}

\* code.ts:441-477
makeText(node, fontName, tx, ty, fixedWidth) ==
    LET textPaint == toSolidPaint(node.style.color)
        t == [createText EXCEPT
                !.fontName = fontName,
                !.characters = node.text,
                !.fills = IF textPaint # Null THEN <<textPaint>> ELSE @,
                !.x = tx, !.y = ty]
    IN  IF fixedWidth > 0
        THEN [t EXCEPT !.textAutoResize = "HEIGHT",
                       !.width = Max(fixedWidth, 10), !.height = 20]
        ELSE [t EXCEPT !.textAutoResize = "WIDTH_AND_HEIGHT"]

\* The text node, and for a boxed leaf its frame, as they are when
\* applyBoldSegments is called: [t, box, j, offset], j the next segment.
startText(node, path, fontName) ==
    LET style == node.style
        rect == node.rect
        w == Max(rect.width, 1)
        h == Max(rect.height, 1)
        boxed == hasBorder(style) \/ hasBg(style)
        frame == applyFrameStyle(
                    [createFrame EXCEPT !.name = node.tagName, !.src = path,
                        !.width = w, !.height = h, !.x = rect.x, !.y = rect.y],
                    style)
        textAreaW == Max(w - style.paddingLeft - style.paddingRight, 10)
        t == IF boxed
             THEN IF isSingleLine(node)
                  THEN makeText(node, fontName, style.paddingLeft, style.paddingTop, 0)
                  ELSE makeText(node, fontName, style.paddingLeft, style.paddingTop, textAreaW)
             ELSE IF style.textAlign \in {"center", "right"}
                  THEN makeText(node, fontName, 0, rect.y, 0)
                  ELSE IF isSingleLine(node)
                       THEN makeText(node, fontName, rect.x, rect.y, 0)
                       ELSE makeText(node, fontName, rect.x, rect.y,
                                IF isBlockDisplay(style) THEN calcFixedWidth(node, w) ELSE 0)
    IN  [t |-> [t EXCEPT !.src = path],
         box |-> IF boxed THEN frame ELSE Null,
         j |-> 1, offset |-> 0]

\* code.ts:481: no list and an empty list are alike
textSegmentsOf(node) == node.textSegments

\* code.ts:485: the segment's range lies inside the text
segmentInRange(tn, seg) ==
    Len(seg.text) > 0 /\ tn.offset + Len(seg.text) <= Len(tn.t.characters)

\* code.ts:483-496, one turn of the loop of applyBoldSegments; boldFont is what
\* loadBestFont returned when the segment is bold and in range
applySegment(tn, seg, boldFont) ==
    LET len == Len(seg.text)
        segPaint == IF seg.color = Null THEN Null ELSE toSolidPaint(seg.color)
        r1 == IF segmentInRange(tn, seg) /\ seg.bold
              THEN <<[start |-> tn.offset, end |-> tn.offset + len, fontName |-> boldFont]>>
              ELSE <<>>
        r2 == IF segmentInRange(tn, seg) /\ segPaint # Null
              THEN <<[start |-> tn.offset, end |-> tn.offset + len, fills |-> <<segPaint>>]>>
              ELSE <<>>
    IN  [tn EXCEPT !.t.ranges = @ \o r1 \o r2, !.offset = @ + len, !.j = @ + 1]

\* What the leaf attaches to its parent once applyBoldSegments has returned,
\* and what it adds to the counters (code.ts:528-601).  The measured size of an
\* auto-width text is the canvas's, so a repositioning is recorded in `aligned`.
finishText(node, tn) ==
    LET style == node.style
        vcenter == (isFlex(style) /\ style.alignItems = "center")
                   \/ node.tagName \in {"button", "a"}
        hcenter == (isFlex(style) /\ style.justifyContent = "center")
                   \/ style.textAlign = "center"
        boxedAligned == (IF vcenter THEN {"y-center"} ELSE {})
                        \cup (IF isSingleLine(node) /\ hcenter THEN {"x-center"} ELSE {})
        plainAligned == IF style.textAlign = "center" THEN {"x-dom-center"}
                        ELSE IF style.textAlign = "right" THEN {"x-dom-right"}
                        ELSE {}
    IN  IF tn.box # Null
        THEN [node |-> [appendChild(tn.box, [tn.t EXCEPT !.aligned = boxedAligned])
                            EXCEPT !.visible = node.visible],
              frames |-> 1, texts |-> 1]
        ELSE [node |-> [tn.t EXCEPT !.aligned = plainAligned, !.visible = node.visible],
              frames |-> 0, texts |-> 1]

\* ------------------------------------------------------------------------
\* buildTree, the other leaves and the container (code.ts:604-685)
\* ------------------------------------------------------------------------
MaxOf(S) == CHOOSE m \in S : \A n \in S : m >= n

\* figma.createNodeFromSvg(markup) throws on markup it cannot parse
createNodeFromSvg(svgHtml) ==
    IF svgHtml.parses THEN [createFrame EXCEPT !.width = svgHtml.width,
                                               !.height = svgHtml.height]
    ELSE Null

\* buildSvg whose placeholder is not resized (code.ts:630 left out)
buildSvgUnsized(node, path) ==
    LET made == IF node.svgHtml = Null THEN Null ELSE createNodeFromSvg(node.svgHtml)
        placed(f) == [f EXCEPT !.src = path, !.x = node.rect.x, !.y = node.rect.y,
                        !.visible = node.visible]
    IN  IF made # Null
        THEN [node |-> placed([made EXCEPT !.name = "svg-icon", !.fills = <<>>]), frames |-> 1]
        ELSE [node |-> placed([createRectangle EXCEPT !.name = "svg-placeholder"]),
              frames |-> 0]

\* code.ts:605-638: [node, frames]
buildSvg(node, path) ==
    LET w == Max(node.rect.width, 1)
        h == Max(node.rect.height, 1)
        made == IF node.svgHtml = Null THEN Null ELSE createNodeFromSvg(node.svgHtml)
        resized(f) == IF \/ f.width - w > 1 \/ w - f.width > 1
                         \/ f.height - h > 1 \/ h - f.height > 1
                      THEN [f EXCEPT !.width = w, !.height = h] ELSE f
        placed(f) == [f EXCEPT !.src = path, !.x = node.rect.x, !.y = node.rect.y,
                        !.opacity = IF node.style.opacity < 1000 THEN node.style.opacity ELSE @,
                        !.visible = node.visible]
    IN  IF made # Null
        THEN [node |-> placed([resized(made) EXCEPT !.name = "svg-icon", !.fills = <<>>]),
              frames |-> 1]
        ELSE [node |-> placed([createRectangle EXCEPT !.name = "svg-placeholder",
                                  !.width = w, !.height = h,
                                  !.fills = <<[type |-> "SOLID", color |-> <<<<7, 10>>, <<7, 10>>, <<7, 10>>>>,
                                               opacity |-> 400]>>]),
              frames |-> 0]

\* code.ts:641-653
buildImg(node, path) ==
    [node |-> [createRectangle EXCEPT
                  !.name = IF node.imageUrl # Null THEN "img" ELSE "img (placeholder)",
                  !.src = path,
                  !.width = Max(node.rect.width, 1), !.height = Max(node.rect.height, 1),
                  !.fills = <<[type |-> "SOLID", color |-> <<<<88, 100>>, <<90, 100>>, <<92, 100>>>>, opacity |-> 1000]>>,
                  !.x = node.rect.x, !.y = node.rect.y, !.visible = node.visible],
     frames |-> 1]

\* code.ts:657-669, the frame of a container before its children are built
containerFrame(node, path) ==
    LET kids == node.children
        frameW == MaxOf({Max(node.rect.width, 1)}
                    \cup {kids[i].rect.x + kids[i].rect.width : i \in 1..Len(kids)})
        frameH == MaxOf({Max(node.rect.height, 1)}
                    \cup {kids[i].rect.y + kids[i].rect.height : i \in 1..Len(kids)})
    IN  applyFrameStyle([createFrame EXCEPT !.src = path, !.width = frameW, !.height = frameH,
                            !.x = node.rect.x, !.y = node.rect.y], node.style)

\* code.ts:698-704, the root frame
rootFrame(data) ==
    applyFrameStyle([createFrame EXCEPT !.name = "HTML Import",
                        !.width = Max(data.rect.width, 1),
                        !.height = Max(data.rect.height, 1)], data.style)

\* ------------------------------------------------------------------------
\* The handlers.  A handler runs from one suspension to the next without
\* another one running (running = r); it is suspended only in
\* figma.loadFontAsync (pc = "font"), and a message is delivered, or a load
\* settles, only while the thread is idle (running = 0).
\* ------------------------------------------------------------------------
Activation(node, path, frame) == [node |-> node, path |-> path, i |-> 1, frame |-> frame]

Top(r) == stack[r][Len(stack[r])]

SetTop(stk, a) == [stk EXCEPT ![Len(stk)] = a]

HasChild(r) == Top(r).i <= Len(Top(r).node.children)

Child(r) == Top(r).node.children[Top(r).i]

ChildPath(r) == Append(Top(r).path, Top(r).i)

isTextLeaf(node) == node.text # <<>> /\ node.children = <<>>

\* the child being built has returned: the loop goes on with the next one
childDone(stk) == SetTop(stk, [stk[Len(stk)] EXCEPT !.i = @ + 1])

\* buildTree without the try of lines 673-677: the exception leaves every
\* container on the way and is caught by the loop of the handler (713-717)
childThrewUncaught(stk) == childDone(<<stk[1]>>)

\* code.ts:673-677 and 713-717: an exception out of buildTree(child, frame) is
\* caught by the loop that called it, which goes on with the next child
childThrew(stk) == childDone(stk)

\* attached with parent.insertChild(0, made) for parent.appendChild(made)
attachedFirst(stk, made) ==
    childDone(SetTop(stk, [stk[Len(stk)] EXCEPT !.frame.children = <<made>> \o @]))

\* parent.appendChild(made) in the activation on top, then back to its loop
attached(stk, made) ==
    childDone(SetTop(stk, [stk[Len(stk)] EXCEPT !.frame = appendChild(@, made)]))

\* The canvas parents a node to the current page when it creates it
\* (figma.createFrame, createText, createRectangle), and appendChild moves it
\* from there to its new parent.  The page lists its children by the request
\* that created them.
created(pg, r, node) ==
    Append(pg, [req |-> r, type |-> node.type, name |-> node.name, src |-> node.src])

moved(pg, r, src) ==
    LET stays(e) == ~(e.req = r /\ e.src = src)
    IN  SelectSeq(pg, stays)

AtLoop(r) == pc[r] = "loop" /\ running = r

Reply(r, type) ==
    [req |-> r, type |-> type,
     frameCount |-> IF type = "import-done" THEN frameCount ELSE 0,
     textCount |-> IF type = "import-done" THEN textCount ELSE 0]

\* The handler without the test of line 690: a message of another type is
\* taken for an import, and its missing data throws at line 701
ReceiveUnchecked(r) ==
    /\ running = 0 /\ r = delivered + 1 /\ r <= Len(inbox)
    /\ inbox[r].type # "import-dom"
    /\ delivered' = r
    /\ frameCount' = 0
    /\ textCount' = 0
    /\ replies' = Append(replies, Reply(r, "import-error"))
    /\ page' = created(page, r, [createFrame EXCEPT !.name = "HTML Import"])
    /\ pc' = [pc EXCEPT ![r] = "done"]
    /\ UNCHANGED <<inbox, running, stack, font, tnode, console, catalog>>

\* code.ts:690: a message of another type
ReceiveOther(r) ==
    /\ running = 0 /\ r = delivered + 1 /\ r <= Len(inbox)
    /\ inbox[r].type # "import-dom"
    /\ delivered' = r
    /\ pc' = [pc EXCEPT ![r] = "done"]
    /\ UNCHANGED <<inbox, running, frameCount, textCount, stack, font, tnode,
                   replies, page, console, catalog>>

\* code.ts:689-710, and 729-734 when the message carries no IR tree
\* (data.rect throws a TypeError at line 701, inside the try, after the root
\* frame has been created)
ReceiveImport(r) ==
    /\ running = 0 /\ r = delivered + 1 /\ r <= Len(inbox)
    /\ inbox[r].type = "import-dom"
    /\ delivered' = r
    /\ frameCount' = 0
    /\ textCount' = 0
    /\ IF inbox[r].data = Null
       THEN /\ replies' = Append(replies, Reply(r, "import-error"))
            /\ page' = created(page, r, [createFrame EXCEPT !.name = "HTML Import"])
            /\ pc' = [pc EXCEPT ![r] = "done"]
            /\ UNCHANGED <<running, stack>>
       ELSE /\ stack' = [stack EXCEPT ![r] =
                            <<Activation(inbox[r].data, <<>>, rootFrame(inbox[r].data))>>]
            /\ page' = created(page, r, rootFrame(inbox[r].data))
            /\ pc' = [pc EXCEPT ![r] = "loop"]
            /\ running' = r
            /\ UNCHANGED replies
    /\ UNCHANGED <<inbox, font, tnode, console, catalog>>

\* A child whose style is missing: the first read of a style property throws,
\* in a text leaf at code.ts:433, in an svg at 618 or 632, in an img at 646,
\* and in a container at 669 (through 398), after its frame was created at 664
ChildThrows(r) ==
    /\ AtLoop(r) /\ HasChild(r)
    /\ Child(r).style = Null
    /\ stack' = [stack EXCEPT ![r] = childThrew(stack[r])]
    /\ console' = Append(console, [req |-> r, path |-> ChildPath(r)])
    /\ page' = IF isTextLeaf(Child(r)) \/ Child(r).tagName = "svg"
               THEN page
               ELSE IF Child(r).tagName = "img"
                    THEN created(page, r, [createRectangle EXCEPT !.src = ChildPath(r),
                             !.name = IF Child(r).imageUrl # Null THEN "img"
                                      ELSE "img (placeholder)"])
                    ELSE created(page, r, [createFrame EXCEPT !.src = ChildPath(r)])
    /\ UNCHANGED <<inbox, delivered, running, frameCount, textCount, pc, font, tnode,
                   replies, catalog>>

\* code.ts:432-436: a text leaf calls loadBestFont and is suspended in it
BuildText(r) ==
    /\ AtLoop(r) /\ HasChild(r)
    /\ Child(r).style # Null
    /\ isTextLeaf(Child(r))
    /\ font' = [font EXCEPT ![r] =
                  [call |-> loadBestFont(mapFontFamily(Child(r).style.fontFamily),
                                weightToFigmaStyle(Child(r).style.fontWeight,
                                                   isItalic(Child(r).style))),
                   for |-> "base"]]
    /\ pc' = [pc EXCEPT ![r] = "font"]
    /\ running' = 0
    /\ UNCHANGED <<inbox, delivered, frameCount, textCount, stack, tnode, replies,
                   page, console, catalog>>

\* The pending figma.loadFontAsync of handler r has settled, and what the loop
\* of loadBestFont does with it
Settled(r) ==
    lbfSettled(font[r].call,
               loadFontAsync(font[r].call.candidates[font[r].call.k], catalog))

\* code.ts:196-197: the load resolved, loadBestFont returns the font to the
\* leaf (code.ts:436) or to applyBoldSegments (code.ts:487)
FontReturned(r) ==
    /\ running = 0 /\ pc[r] = "font"
    /\ Settled(r).status = "returned"
    /\ tnode' = [tnode EXCEPT ![r] =
                    IF font[r].for = "base"
                    THEN startText(Child(r), ChildPath(r), Settled(r).result)
                    ELSE applySegment(@, textSegmentsOf(Child(r))[@.j], Settled(r).result)]
    /\ page' = IF font[r].for = "base"
               THEN LET tn == startText(Child(r), ChildPath(r), Settled(r).result)
                    IN  created(IF tn.box # Null THEN created(page, r, tn.box) ELSE page,
                                r, tn.t)
               ELSE page
    /\ font' = [font EXCEPT ![r] = Null]
    /\ pc' = [pc EXCEPT ![r] = "segs"]
    /\ running' = r
    /\ UNCHANGED <<inbox, delivered, frameCount, textCount, stack, replies,
                   console, catalog>>

\* code.ts:198-200: the load rejected, the next candidate is asked for
FontRetried(r) ==
    /\ running = 0 /\ pc[r] = "font"
    /\ Settled(r).status = "pending"
    /\ font' = [font EXCEPT ![r].call = Settled(r)]
    /\ UNCHANGED <<inbox, delivered, running, frameCount, textCount, pc, stack, tnode,
                   replies, page, console, catalog>>

\* code.ts:202: the last load rejected, loadBestFont throws and the leaf's
\* buildTree with it.  Nothing of the leaf has been appended to its parent;
\* what makeText and createFrame made before a bold segment asked for its font
\* stays where it was created.
FontThrown(r) ==
    /\ running = 0 /\ pc[r] = "font"
    /\ Settled(r).status = "thrown"
    /\ font' = [font EXCEPT ![r] = Null]
    /\ tnode' = [tnode EXCEPT ![r] = Null]
    /\ stack' = [stack EXCEPT ![r] = childThrew(stack[r])]
    /\ console' = Append(console, [req |-> r, path |-> ChildPath(r)])
    /\ pc' = [pc EXCEPT ![r] = "loop"]
    /\ running' = r
    /\ UNCHANGED <<inbox, delivered, frameCount, textCount, replies, page, catalog>>

\* code.ts:483-496: the next segment; a bold one in range awaits loadBestFont
SegmentStep(r) ==
    /\ running = r /\ pc[r] = "segs"
    /\ tnode[r].j <= Len(textSegmentsOf(Child(r)))
    /\ LET seg == textSegmentsOf(Child(r))[tnode[r].j]
       IN  IF segmentInRange(tnode[r], seg) /\ seg.bold
           THEN /\ font' = [font EXCEPT ![r] =
                       [call |-> loadBestFont(mapFontFamily(Child(r).style.fontFamily),
                                     weightToFigmaStyle(700, isItalic(Child(r).style))),
                        for |-> "bold"]]
                /\ pc' = [pc EXCEPT ![r] = "font"]
                /\ running' = 0
                /\ UNCHANGED tnode
           ELSE /\ tnode' = [tnode EXCEPT ![r] = applySegment(@, seg, Null)]
                /\ UNCHANGED <<font, pc, running>>
    /\ UNCHANGED <<inbox, delivered, frameCount, textCount, stack, replies, page,
                   console, catalog>>

\* code.ts:528-601: the leaf is attached and counted, buildTree returns
FinishText(r) ==
    /\ running = r /\ pc[r] = "segs"
    /\ tnode[r].j > Len(textSegmentsOf(Child(r)))
    /\ LET made == finishText(Child(r), tnode[r])
       IN  /\ stack' = [stack EXCEPT ![r] = attached(stack[r], made.node)]
           /\ frameCount' = frameCount + made.frames
           /\ textCount' = textCount + made.texts
    /\ page' = moved(page, r, ChildPath(r))
    /\ tnode' = [tnode EXCEPT ![r] = Null]
    /\ pc' = [pc EXCEPT ![r] = "loop"]
    /\ UNCHANGED <<inbox, delivered, running, font, replies, console, catalog>>

\* code.ts:605-638
BuildSvg(r) ==
    /\ AtLoop(r) /\ HasChild(r)
    /\ Child(r).style # Null
    /\ ~isTextLeaf(Child(r))
    /\ Child(r).tagName = "svg"
    /\ LET made == buildSvg(Child(r), ChildPath(r))
       IN  /\ stack' = [stack EXCEPT ![r] = attached(stack[r], made.node)]
           /\ frameCount' = frameCount + made.frames
    /\ UNCHANGED <<inbox, delivered, running, textCount, pc, font, tnode, replies,
                   page, console, catalog>>

\* code.ts:641-653
BuildImg(r) ==
    /\ AtLoop(r) /\ HasChild(r)
    /\ Child(r).style # Null
    /\ ~isTextLeaf(Child(r))
    /\ Child(r).tagName = "img"
    /\ LET made == buildImg(Child(r), ChildPath(r))
       IN  /\ stack' = [stack EXCEPT ![r] = attached(stack[r], made.node)]
           /\ frameCount' = frameCount + made.frames
    /\ UNCHANGED <<inbox, delivered, running, textCount, pc, font, tnode, replies,
                   page, console, catalog>>

\* code.ts:655-672: a container creates its frame and enters its child loop
BuildFrame(r) ==
    /\ AtLoop(r) /\ HasChild(r)
    /\ Child(r).style # Null
    /\ ~isTextLeaf(Child(r))
    /\ Child(r).tagName \notin {"svg", "img"}
    /\ stack' = [stack EXCEPT ![r] =
                    Append(@, Activation(Child(r), ChildPath(r),
                                         containerFrame(Child(r), ChildPath(r))))]
    /\ page' = created(page, r, containerFrame(Child(r), ChildPath(r)))
    /\ UNCHANGED <<inbox, delivered, running, frameCount, textCount, pc, font, tnode,
                   replies, console, catalog>>

\* code.ts:680-684: the child loop of a container is over
FinishFrame(r) ==
    /\ AtLoop(r) /\ ~HasChild(r)
    /\ Len(stack[r]) > 1
    /\ LET frame == [Top(r).frame EXCEPT !.visible = Top(r).node.visible,
                                         !.name = Top(r).node.tagName]
       IN  stack' = [stack EXCEPT ![r] = attached(SubSeq(@, 1, Len(@) - 1), frame)]
    /\ page' = moved(page, r, Top(r).path)
    /\ frameCount' = frameCount + 1
    /\ UNCHANGED <<inbox, delivered, running, textCount, pc, font, tnode, replies,
                   console, catalog>>

\* code.ts:720-728: the child loop of the root is over
PostDone(r) ==
    /\ AtLoop(r) /\ ~HasChild(r)
    /\ Len(stack[r]) = 1
    /\ replies' = Append(replies, Reply(r, "import-done"))
    /\ pc' = [pc EXCEPT ![r] = "done"]
    /\ running' = 0
    /\ UNCHANGED <<inbox, delivered, frameCount, textCount, stack, font, tnode, page,
                   console, catalog>>

\* ------------------------------------------------------------------------
\* The messages the model delivers
\* ------------------------------------------------------------------------
MaxReq == 2      \* messages in one run
MaxNodes == 3    \* IR nodes below the root when one message is delivered
MaxShared == 2   \* IR nodes below the roots, in all, when several are

\* what getComputedStyle gives an unstyled block (a weight of 400)
Style ==
    [fontFamily |-> <<"Roboto", "sans-serif">>, fontWeight |-> 400,
     fontStyle |-> "normal", fontSize |-> 16, color |-> Rgb(0, 0, 0),
     backgroundColor |-> Css("legacy", 0, 0, 0, 0), backgroundImage |-> BgNone,
     borderTopWidth |-> 0, borderRightWidth |-> 0, borderBottomWidth |-> 0,
     borderLeftWidth |-> 0, borderStyle |-> "none", borderColor |-> Rgb(0, 0, 0),
     opacity |-> 1000, overflow |-> "visible", display |-> "block",
     textAlign |-> "start", alignItems |-> "normal", justifyContent |-> "normal",
     paddingTop |-> 0, paddingRight |-> 0, paddingBottom |-> 0, paddingLeft |-> 0]

IrNode(tagName, text, style, children) ==
    [tagName |-> tagName, text |-> text, textSegments |-> <<>>, imageUrl |-> Null,
     svgHtml |-> Null, rect |-> [x |-> 0, y |-> 0, width |-> 100, height |-> 20],
     visible |-> TRUE, style |-> style, children |-> children]

\* <p>a<b>b</b></p>
TextLeaf ==
    [IrNode("p", <<"a", "b">>, Style, <<>>) EXCEPT
        !.textSegments = <<[text |-> <<"a">>, bold |-> FALSE, color |-> Null],
                           [text |-> <<"b">>, bold |-> TRUE, color |-> Null]>>]

\* a button with a background
BoxedLeaf ==
    IrNode("button", <<"a", "b">>, [Style EXCEPT !.backgroundColor = Rgb(255, 0, 0)], <<>>)

SvgLeaf ==
    [IrNode("svg", <<>>, Style, <<>>) EXCEPT
        !.svgHtml = [parses |-> TRUE, width |-> 100, height |-> 20]]

BrokenSvgLeaf ==
    [IrNode("svg", <<>>, Style, <<>>) EXCEPT
        !.svgHtml = [parses |-> FALSE, width |-> 100, height |-> 20]]

\* an svg that arrives without its markup
BareSvgLeaf == IrNode("svg", <<>>, Style, <<>>)

\* an img that the rounding of its offset puts one pixel past the right edge
\* of its parent
ImgLeaf ==
    [IrNode("img", <<>>, Style, <<>>) EXCEPT
        !.rect = [x |-> 1, y |-> 0, width |-> 100, height |-> 20]]

\* a node that arrives without its style
BadLeaf == IrNode("div", <<>>, Null, <<>>)

Leaves == {TextLeaf, BoxedLeaf, SvgLeaf, BrokenSvgLeaf, BareSvgLeaf, ImgLeaf, BadLeaf}

RECURSIVE Forests(_), Trees(_)
\* the sequences of IR nodes that hold n nodes in all
Forests(n) ==
    IF n = 0 THEN {<<>>}
    ELSE UNION {{<<t>> \o f : t \in Trees(m), f \in Forests(n - m)} : m \in 1..n}

\* the IR nodes that hold m nodes in all, themselves included
Trees(m) ==
    (IF m = 1 THEN Leaves ELSE {})
    \cup {IrNode("div", <<>>, Style, f) : f \in Forests(m - 1)}

\* the messages whose IR tree holds n nodes below its root; the root is a
\* container, or the text leaf serializeDom gives for a root such as <p>a<b>b</b></p>
MsgsOf(n) ==
    {[type |-> "import-dom", data |-> IrNode("div", <<>>, Style, f)] : f \in Forests(n)}
    \cup (IF n = 0 THEN {[type |-> "import-dom", data |-> Null],
                        [type |-> "import-dom", data |-> TextLeaf],
                        [type |-> "resize", data |-> Null]}
          ELSE {})

RECURSIVE InboxesOf(_, _)
\* the sequences of len messages that hold n nodes below their roots in all
InboxesOf(len, n) ==
    IF len = 0 THEN (IF n = 0 THEN {<<>>} ELSE {})
    ELSE UNION {{<<m>> \o rest : m \in MsgsOf(k), rest \in InboxesOf(len - 1, n - k)}
                   : k \in 0..n}

\* the fonts a catalog may hold
Fonts == {FontName("Roboto", <<"Light">>), FontName("Inter", <<"Regular">>)}

Init ==
    /\ inbox \in UNION {InboxesOf(1, n) : n \in 0..MaxNodes}
                \cup UNION {InboxesOf(len, n) : len \in 2..MaxReq, n \in 0..MaxShared}
    /\ catalog \in SUBSET Fonts
    /\ delivered = 0
    /\ running = 0
    /\ frameCount = 0
    /\ textCount = 0
    /\ pc = [r \in 1..Len(inbox) |-> "idle"]
    /\ stack = [r \in 1..Len(inbox) |-> <<>>]
    /\ font = [r \in 1..Len(inbox) |-> Null]
    /\ tnode = [r \in 1..Len(inbox) |-> Null]
    /\ replies = <<>>
    /\ page = <<>>
    /\ console = <<>>
    /\ lbf = Null
    /\ dom = Null
    /\ ui = Null
    /\ leaf = Null

Next ==
    \/ \E r \in 1..Len(inbox) : ReceiveOther(r) /\ UNCHANGED ovars
    \/ \E r \in 1..Len(inbox) : ReceiveImport(r) /\ UNCHANGED ovars
    \/ \E r \in 1..Len(inbox) : ChildThrows(r) /\ UNCHANGED ovars
    \/ \E r \in 1..Len(inbox) : BuildText(r) /\ UNCHANGED ovars
    \/ \E r \in 1..Len(inbox) : FontReturned(r) /\ UNCHANGED ovars
    \/ \E r \in 1..Len(inbox) : FontRetried(r) /\ UNCHANGED ovars
    \/ \E r \in 1..Len(inbox) : FontThrown(r) /\ UNCHANGED ovars
    \/ \E r \in 1..Len(inbox) : SegmentStep(r) /\ UNCHANGED ovars
    \/ \E r \in 1..Len(inbox) : FinishText(r) /\ UNCHANGED ovars
    \/ \E r \in 1..Len(inbox) : BuildSvg(r) /\ UNCHANGED ovars
    \/ \E r \in 1..Len(inbox) : BuildImg(r) /\ UNCHANGED ovars
    \/ \E r \in 1..Len(inbox) : BuildFrame(r) /\ UNCHANGED ovars
    \/ \E r \in 1..Len(inbox) : FinishFrame(r) /\ UNCHANGED ovars
    \/ \E r \in 1..Len(inbox) : PostDone(r) /\ UNCHANGED ovars

Spec == Init /\ [][Next]_vars

\* ------------------------------------------------------------------------
\* loadBestFont taken alone (code.ts:160-203): a call on a family and a
\* style, against a catalog, followed one settled load at a time
\* ------------------------------------------------------------------------
MaxFonts == 2   \* fonts in the catalog

\* the main thread when no message is ever delivered
NoMessage ==
    /\ inbox = <<>> /\ delivered = 0 /\ running = 0
    /\ frameCount = 0 /\ textCount = 0
    /\ pc = <<>> /\ stack = <<>> /\ font = <<>> /\ tnode = <<>>
    /\ replies = <<>> /\ page = <<>> /\ console = <<>>

Families == {"Roboto", "Pretendard", "Noto Sans KR"}

\* the styles weightToFigmaStyle gives, and one spelled with a space
Styles ==
    {weightToFigmaStyle(w, i) : w \in {50, 400, 600, 700}, i \in BOOLEAN}
    \cup {<<"Semi", "Bold">>}

Spaced(style) ==
    ReplaceFirst(ReplaceFirst(ReplaceFirst(style,
        <<"SemiBold">>, <<"Semi", "Bold">>),
        <<"ExtraBold">>, <<"Extra", "Bold">>),
        <<"ExtraLight">>, <<"Extra", "Light">>)

\* the fonts a catalog may hold when (family, style) is asked for
FontsFor(family, style) ==
    Range(candidates(family, style))
    \cup {FontName("Noto Sans KR", Spaced(style))}

CatalogsFor(family, style) ==
    {c \in SUBSET FontsFor(family, style) : Cardinality(c) <= MaxFonts}

FontInit ==
    /\ \E family \in Families, style \in Styles :
          /\ lbf = [family |-> family, style |-> style,
                    call |-> loadBestFont(family, style)]
          /\ catalog \in CatalogsFor(family, style)
    /\ NoMessage
    /\ dom = Null
    /\ ui = Null
    /\ leaf = Null

LbfSettled ==
    lbfSettled(lbf.call, loadFontAsync(lbf.call.candidates[lbf.call.k], catalog))

\* code.ts:196-197
LoadResolved ==
    /\ lbf.call.status = "pending"
    /\ LbfSettled.status = "returned"
    /\ lbf' = [lbf EXCEPT !.call = LbfSettled]
    /\ UNCHANGED <<hvars, dom, ui, leaf>>

\* code.ts:198-200
LoadRejected ==
    /\ lbf.call.status = "pending"
    /\ LbfSettled.status = "pending"
    /\ lbf' = [lbf EXCEPT !.call = LbfSettled]
    /\ UNCHANGED <<hvars, dom, ui, leaf>>

\* code.ts:202
LadderExhausted ==
    /\ lbf.call.status = "pending"
    /\ LbfSettled.status = "thrown"
    /\ lbf' = [lbf EXCEPT !.call = LbfSettled]
    /\ UNCHANGED <<hvars, dom, ui, leaf>>

FontNext ==
    \/ LoadResolved
    \/ LoadRejected
    \/ LadderExhausted

SpecFont == FontInit /\ [][FontNext]_vars

Compact(style) ==
    ReplaceFirst(ReplaceFirst(ReplaceFirst(style,
        <<"Semi", "Bold">>, <<"SemiBold">>),
        <<"Extra", "Bold">>, <<"ExtraBold">>),
        <<"Extra", "Light">>, <<"ExtraLight">>)

InterRegular == FontName("Inter", <<"Regular">>)

\* ------------------------------------------------------------------------
\* C8: loadBestFont asks for its candidates one after another in the order
\* of the ladder, each entry of the list once (the list may name one font on
\* several rungs); it returns the first one that loads and asks for none
\* after it; it throws only when every one has failed.  The ladder is: the
\* exact style and its spellings, the style without Italic, Regular, all of
\* the family asked for, then rungs of Noto Sans KR for a Korean family, and
\* Inter Regular last.
\* ------------------------------------------------------------------------
C8_LadderInOrder ==
    LET c == lbf.call
        cs == c.candidates
        n == Len(cs)
    IN  /\ c.attempts = SubSeq(cs, 1, c.k)
        /\ \A i \in 1..(c.k - 1) : cs[i] \notin catalog
        /\ c.status = "returned" => c.result = cs[c.k] /\ c.result \in catalog
        /\ c.status = "thrown" => c.k = n /\ cs[n] \notin catalog
        /\ c.status = "pending" => c.result = Null
        /\ cs[1] = FontName(lbf.family, lbf.style)
        /\ cs[n] = InterRegular
        /\ \E i, j \in 2..(n - 1) :
              /\ i < j
              /\ cs[i] = FontName(lbf.family, ReplaceItalic(lbf.style))
              /\ cs[j] = FontName(lbf.family, <<"Regular">>)
              /\ \A m \in 1..(i - 1) :
                    /\ cs[m].family = lbf.family
                    /\ cs[m].style \in {lbf.style, Spaced(lbf.style), Compact(lbf.style)}
              /\ \A m \in (j + 1)..(n - 1) :
                    /\ cs[m].family = "Noto Sans KR"
                    /\ lbf.family \in KOREAN_FAMILIES \ {"Noto Sans KR"}

\* the call returned a rung after three that failed, with rungs left
C8_Witness ==
    /\ lbf.call.status = "returned"
    /\ lbf.call.k > 3
    /\ lbf.call.k < Len(lbf.call.candidates)

\* ------------------------------------------------------------------------
\* C9: for a Korean family other than Noto Sans KR the ladder (exact style,
\* spaced variant, style without Italic, Regular) is run again on Noto Sans
\* KR before Inter Regular: a font of Noto Sans KR is returned only when no
\* rung of the family loads, and Inter Regular only when no rung of Noto
\* Sans KR loads either.
\* ------------------------------------------------------------------------
LadderOf(family, style) ==
    {FontName(family, st) :
        st \in {style, Spaced(style), ReplaceItalic(style), <<"Regular">>}}

C9_LadderRerunOnNotoSansKR ==
    (/\ lbf.family \in KOREAN_FAMILIES \ {"Noto Sans KR"}
     /\ lbf.call.status = "returned") =>
        /\ lbf.call.result.family = "Noto Sans KR" =>
              LadderOf(lbf.family, lbf.style) \cap catalog = {}
        /\ lbf.call.result = InterRegular =>
              /\ LadderOf(lbf.family, lbf.style) \cap catalog = {}
              /\ LadderOf("Noto Sans KR", lbf.style) \cap catalog = {}

\* ------------------------------------------------------------------------
\* The extractor (domSerializer.ts, src/unnamed/part_001).  A DOM node is a
\* text node [nodeType, data, w2, h2] or an element [nodeType, tag, cs, x, y,
\* w2, h2, childNodes, before, after, value, placeholder, src]; cs is its
\* computed style, before and after those of its pseudo-elements.  Measured
\* sizes (w2, h2) are in half pixels, offsets from the parent in pixels.
\* ------------------------------------------------------------------------
SKIP_TAGS ==
    {"script", "style", "meta", "link", "head", "noscript", "br", "template",
     "canvas", "video", "audio"}

INLINE_TEXT_TAGS ==
    {"strong", "em", "b", "i", "a", "span", "small", "mark", "sub", "sup", "abbr",
     "cite", "code", "kbd", "label", "time", "u", "s", "del", "ins"}

\* Math.round of a number of half pixels
Round2(n2) == (n2 + 1) \div 2

RECURSIVE trimStart(_)
trimStart(s) == IF s # <<>> /\ Head(s) = " " THEN trimStart(Tail(s)) ELSE s

RECURSIVE trimEnd(_)
trimEnd(s) ==
    IF s # <<>> /\ s[Len(s)] = " " THEN trimEnd(SubSeq(s, 1, Len(s) - 1)) ELSE s

trim(s) == trimEnd(trimStart(s))

RECURSIVE textContent(_)
RECURSIVE textContentOf(_, _)
\* node.textContent: the data of the text nodes below it, in document order
textContent(node) ==
    IF node.nodeType = "text" THEN node.data ELSE textContentOf(node.childNodes, 1)

textContentOf(nodes, i) ==
    IF i > Len(nodes) THEN <<>> ELSE textContent(nodes[i]) \o textContentOf(nodes, i + 1)

isElement(n) == n.nodeType = "element"

\* Math.round(num / den), for numbers that are not negative
RoundDiv(num, den) == (2 * num + den) \div (2 * den)

\* the colours the canvas knows by the names the model writes
NamedColors ==
    [name \in {"red", "green", "blue"} |->
        CASE name = "red" -> <<255, 0, 0>>
          [] name = "green" -> <<0, 128, 0>>
          [] name = "blue" -> <<0, 0, 255>>]

\* domSerializer.ts:42-46: the pixel [r, g, b, a], in bytes, read back after
\* the colour has been painted on a cleared canvas.  A fillStyle the canvas
\* cannot parse is ignored and leaves the transparent one of line 43.  The
\* colour bytes are those written; at a partial alpha a canvas that stores
\* premultiplied bytes may give them back off by a rounding.
getImageData(css) ==
    CASE css.form = "modern" ->
            [r |-> css.r, g |-> css.g, b |-> css.b, a |-> RoundDiv(css.a * 255, 1000)]
      [] css.form = "srgb" ->
            [r |-> RoundDiv(css.r * 255, 1000), g |-> RoundDiv(css.g * 255, 1000),
             b |-> RoundDiv(css.b * 255, 1000), a |-> RoundDiv(css.a * 255, 1000)]
      [] css.form = "hex" /\ css.n \in {3, 6} ->
            [r |-> css.r, g |-> css.g, b |-> css.b, a |-> 255]
      [] css.form = "hex" /\ css.n = 8 ->
            [r |-> css.r, g |-> css.g, b |-> css.b, a |-> css.a]
      [] css.form = "named" /\ css.name \in DOMAIN NamedColors ->
            [r |-> NamedColors[css.name][1], g |-> NamedColors[css.name][2],
             b |-> NamedColors[css.name][3], a |-> 255]
      [] OTHER -> [r |-> 0, g |-> 0, b |-> 0, a |-> 0]

\* domSerializer.ts:36-53.  A string that begins like a legacy rgb( or rgba(
\* is returned as it is (line 39).
normalizeCssColor(css) ==
    IF css.form \in {"empty", "transparent", "none"} THEN css
    ELSE IF css.form = "legacy" THEN css
    ELSE LET px == getImageData(css)
         IN  IF px.a = 0 THEN Transparent
             ELSE IF px.a = 255 THEN Rgb(px.r, px.g, px.b)
             ELSE Css("legacy", px.r, px.g, px.b, RoundDiv(px.a * 1000, 255))

\* domSerializer.ts:130-168; the four sides of the border are alike, so that
\* effectiveBorderColor (60-67) is the normalized border colour
extractStyle(cs) ==
    [f \in DOMAIN Style |->
        IF f = "opacity" THEN (IF cs.opacity = 0 THEN 1000 ELSE cs.opacity)
        ELSE IF f = "fontSize" THEN (IF cs.fontSize = 0 THEN 14 ELSE cs.fontSize)
        ELSE IF f \in {"color", "backgroundColor", "borderColor"}
             THEN normalizeCssColor(cs[f])
             ELSE cs[f]]

\* domSerializer.ts:295-309 and 349-358: the style of a synthetic #text node
textStyleOf(cs) ==
    [extractStyle(cs) EXCEPT
        !.backgroundColor = Transparent, !.backgroundImage = [kind |-> "empty"],
        !.borderTopWidth = 0, !.borderRightWidth = 0, !.borderBottomWidth = 0,
        !.borderLeftWidth = 0, !.borderColor = Transparent, !.borderStyle = "none",
        !.paddingTop = 0, !.paddingRight = 0, !.paddingBottom = 0, !.paddingLeft = 0]

\* domSerializer.ts:81-128; a pseudo-element is Null when its content is
\* none or normal, else [content, text, display, width, height, cs] with
\* content "string" for a quoted string and the pixels pf() reads
extractPseudoElement(el, pseudo) ==
    LET pcs == IF pseudo = "::before" THEN el.before ELSE el.after
    IN  IF pcs = Null THEN Null
        ELSE IF pcs.display = "none" THEN Null
        ELSE IF pcs.width < 1 \/ pcs.height < 1 THEN Null
        ELSE [IrNode(pseudo,
                     IF pcs.content = "string" THEN pcs.text ELSE <<>>,
                     extractStyle(pcs.cs), <<>>)
                 EXCEPT !.rect = [x |-> 0, y |-> 0, width |-> pcs.width,
                                  height |-> pcs.height]]

\* extractTextSegments without its test of the weight
extractTextSegmentsPlain(el) ==
    LET seg(n) == [text |-> textContent(n), bold |-> FALSE, color |-> Null]
        all == [i \in 1..Len(el.childNodes) |-> seg(el.childNodes[i])]
    IN  SelectSeq(all, LAMBDA g : g.text # <<>>)

\* domSerializer.ts:412-427
extractTextSegments(el) ==
    LET seg(n) == IF isElement(n)
                  THEN [text |-> textContent(n), bold |-> n.cs.fontWeight >= 700,
                        color |-> Null]
                  ELSE [text |-> n.data, bold |-> FALSE, color |-> Null]
        all == [i \in 1..Len(el.childNodes) |-> seg(el.childNodes[i])]
    IN  SelectSeq(all, LAMBDA g : g.text # <<>>)

\* What lines 346-375 do without their test: the text stays on the node
demoteNothing(text, textSegments, children, el) ==
    [text |-> text, textSegments |-> textSegments, children |-> children]

\* domSerializer.ts:346-375: a text that has children beside it becomes a
\* #text child, placed inside the padding: [text, textSegments, children]
demote(text, textSegments, children, el) ==
    IF text # <<>> /\ Len(children) > 0
    THEN [text |-> <<>>, textSegments |-> <<>>,
          children |-> Append(children,
              [IrNode("#text", text, textStyleOf(el.cs), <<>>) EXCEPT
                  !.textSegments = textSegments,
                  !.rect = [x |-> el.cs.paddingLeft, y |-> el.cs.paddingTop,
                            width |-> Round2(el.w2 - 2 * el.cs.paddingLeft
                                                   - 2 * el.cs.paddingRight),
                            height |-> Round2(el.h2 - 2 * el.cs.paddingTop
                                                    - 2 * el.cs.paddingBottom)]])]
    ELSE [text |-> text, textSegments |-> textSegments, children |-> children]

\* domSerializer.ts:437-484: the markup carries the measured size in pixels
serializeSvg(el) ==
    [parses |-> TRUE, width |-> Round2(el.w2), height |-> Round2(el.h2)]

\* domSerializer.ts:287-317: a text node met in the walk of childNodes; Null
\* when it is skipped
serializeText(node, cs) ==
    IF trim(node.data) = <<>> THEN Null
    ELSE IF node.w2 < 2 \/ node.h2 < 2 THEN Null
    ELSE [IrNode("#text", trim(node.data), textStyleOf(cs), <<>>) EXCEPT
             !.rect = [x |-> node.x, y |-> node.y,
                       width |-> Round2(node.w2), height |-> Round2(node.h2)]]

\* domSerializer.ts:219-270: what the element is read as before its children
\* are visited: [text, textSegments, isPlaceholder]
readText(el) ==
    LET kids == el.childNodes
        elementChildren ==
            SelectSeq(kids, LAMBDA c : isElement(c) /\ c.tag \notin SKIP_TAGS)
        hasSignificantTextNodes ==
            \E i \in 1..Len(kids) : ~isElement(kids[i]) /\ trim(kids[i].data) # <<>>
        hasBr == \E i \in 1..Len(kids) : isElement(kids[i]) /\ kids[i].tag = "br"
        allInline ==
            \A i \in 1..Len(elementChildren) : elementChildren[i].tag \in INLINE_TEXT_TAGS
        t == trim(textContent(el))
        found == IF elementChildren = <<>> /\ ~hasBr
                 THEN [text |-> t, textSegments |-> <<>>]
                 ELSE IF hasSignificantTextNodes /\ allInline /\ ~hasBr /\ t # <<>>
                      THEN [text |-> t, textSegments |-> extractTextSegments(el)]
                      ELSE [text |-> <<>>, textSegments |-> <<>>]
        isForm == el.tag \in {"input", "textarea", "select"}
        val == trim(el.value)
        ph == trim(el.placeholder)
    IN  [text |-> IF found.text = <<>> /\ isForm
                  THEN (IF val # <<>> THEN val ELSE ph)
                  ELSE found.text,
         textSegments |-> found.textSegments,
         isPlaceholder |-> found.text = <<>> /\ isForm /\ val = <<>> /\ ph # <<>>]

RECURSIVE serializeDom(_, _)
RECURSIVE serializeNodes(_, _, _)
\* domSerializer.ts:176-405.  The position of a fixed element is set to
\* absolute while it is measured and set back on every return (187-192, 197,
\* 203, 388); x, y, w2, h2 are what getBoundingClientRect gives meanwhile.
serializeDom(el, isRoot) ==
    LET tag == el.tag
        cs == el.cs
        kids == el.childNodes
        elementChildren ==
            SelectSeq(kids, LAMBDA c : isElement(c) /\ c.tag \notin SKIP_TAGS)
        hasSignificantTextNodes ==
            \E i \in 1..Len(kids) : ~isElement(kids[i]) /\ trim(kids[i].data) # <<>>
        hasBr == \E i \in 1..Len(kids) : isElement(kids[i]) /\ kids[i].tag = "br"
        found == readText(el)
        text == found.text
        isPlaceholder == found.isPlaceholder
        own == IF text # <<>> THEN <<>>
               ELSE IF hasSignificantTextNodes /\ (Len(elementChildren) > 0 \/ hasBr)
                    THEN serializeNodes(kids, 1, cs)
                    ELSE serializeNodes(elementChildren, 1, cs)
        pseudoBefore == extractPseudoElement(el, "::before")
        pseudoAfter == extractPseudoElement(el, "::after")
        children == (IF pseudoBefore # Null THEN <<pseudoBefore>> ELSE <<>>)
                    \o own
                    \o (IF pseudoAfter # Null THEN <<pseudoAfter>> ELSE <<>>)
        d == demote(text, found.textSegments, children, el)
        nodeStyle == IF isPlaceholder /\ el.placeholderColor # Null
                        /\ normalizeCssColor(el.placeholderColor) # Transparent
                     THEN [extractStyle(cs) EXCEPT
                              !.color = normalizeCssColor(el.placeholderColor)]
                     ELSE extractStyle(cs)
        rect == [x |-> el.x, y |-> el.y,
                 width |-> Round2(el.w2), height |-> Round2(el.h2)]
    IN  IF tag \in SKIP_TAGS THEN Null
        ELSE IF cs.display = "none" THEN Null
        ELSE IF cs.visibility = "hidden" THEN Null
        ELSE IF el.w2 < 2 \/ el.h2 < 2 THEN Null
        ELSE IF tag = "svg"
        THEN [IrNode("svg", <<>>, extractStyle(cs), <<>>) EXCEPT
                 !.svgHtml = serializeSvg(el), !.rect = rect]
        ELSE [IrNode(tag, d.text, nodeStyle, d.children) EXCEPT
                 !.textSegments = d.textSegments,
                 !.imageUrl = IF tag = "img" THEN el.src ELSE Null,
                 !.rect = rect]

\* the loops of lines 283-335: what nodes i.. of the list give, in order
serializeNodes(nodes, i, cs) ==
    IF i > Len(nodes) THEN <<>>
    ELSE LET n == nodes[i]
             data == IF isElement(n)
                     THEN (IF n.tag \in SKIP_TAGS THEN Null ELSE serializeDom(n, FALSE))
                     ELSE serializeText(n, cs)
         IN  (IF data # Null THEN <<data>> ELSE <<>>) \o serializeNodes(nodes, i + 1, cs)

\* the activations of serializeDom the call stack has room for: a call
\* nested deeper throws a RangeError as it is entered
StackLimit == 3

RECURSIVE serializePositions(_, _, _, _)
RECURSIVE serializePositionsOf(_, _, _, _)
\* domSerializer.ts:176-405, what a call does to the inline position of the
\* elements (187-192, 197, 203, 388).  The call on el, which is at `path`
\* below the root, is the d-th activation on the stack.  It gives [threw,
\* converted, absolute]: whether it throws, the elements it has set to
\* absolute, and those that are absolute still when it ends.
serializePositions(el, isRoot, path, d) ==
    LET nothing == [threw |-> FALSE, converted |-> {}, absolute |-> {}]
        fixedConverted == ~isRoot /\ el.cs.position = "fixed"
        mine == IF fixedConverted THEN {path} ELSE {}
    IN  IF d > StackLimit THEN [nothing EXCEPT !.threw = TRUE]
        ELSE IF el.tag \in SKIP_TAGS \/ el.cs.display = "none"
                    \/ el.cs.visibility = "hidden" THEN nothing
        ELSE IF el.w2 < 2 \/ el.h2 < 2 \/ el.tag = "svg" \/ readText(el).text # <<>>
             THEN [nothing EXCEPT !.converted = mine]
             ELSE LET below == serializePositionsOf(el.childNodes, 1, path, d + 1)
                  IN  [threw |-> below.threw,
                       converted |-> mine \cup below.converted,
                       absolute |-> IF below.threw THEN mine \cup below.absolute ELSE {}]

\* the loops of lines 283-335 on nodes i.. of the list: an exception out of
\* the call on a child ends the loop and the caller with it
serializePositionsOf(nodes, i, path, d) ==
    IF i > Len(nodes) THEN [threw |-> FALSE, converted |-> {}, absolute |-> {}]
    ELSE LET n == nodes[i]
             first == IF isElement(n) /\ n.tag \notin SKIP_TAGS
                      THEN serializePositions(n, FALSE, Append(path, i), d)
                      ELSE [threw |-> FALSE, converted |-> {}, absolute |-> {}]
         IN  IF first.threw THEN first
             ELSE LET rest == serializePositionsOf(nodes, i + 1, path, d)
                  IN  [rest EXCEPT !.converted = first.converted \cup @]

\* ------------------------------------------------------------------------
\* serializeDom taken alone, on the elements a page of a few nodes can hold
\* ------------------------------------------------------------------------
MaxKids == 2   \* child nodes of the element serializeDom is called on

\* what getComputedStyle gives an unstyled block
ComputedStyle == Style @@ [visibility |-> "visible", position |-> "static"]

El(tag, kids) ==
    [nodeType |-> "element", tag |-> tag, cs |-> ComputedStyle,
     x |-> 0, y |-> 0, w2 |-> 200, h2 |-> 40, childNodes |-> kids,
     before |-> Null, after |-> Null, value |-> <<>>, placeholder |-> <<>>,
     placeholderColor |-> Null, src |-> Null]

Txt(data) == [nodeType |-> "text", data |-> data, x |-> 0, y |-> 0, w2 |-> 20, h2 |-> 36]

\* content: "*" on a box of 8 by 8 pixels
Bullet ==
    [content |-> "string", text |-> <<"*">>, display |-> "inline-block",
     width |-> 8, height |-> 8, cs |-> ComputedStyle]

\* content: url(...), of the same size
Icon == [Bullet EXCEPT !.content = "url", !.text = <<>>]

\* <b>b</b>, bold
Bold == [El("b", <<Txt(<<"b">>)>>) EXCEPT !.cs.fontWeight = 700, !.cs.display = "inline"]

\* <p>a<b>b</b></p> with a ::before
Marked == [El("p", <<Txt(<<"a">>), Bold>>) EXCEPT !.before = Bullet]

Pieces ==
    {Txt(<<"a">>), Txt(<<" ">>), Txt(<<" ", "a", " ">>), Bold, Marked,
     El("br", <<>>), El("script", <<Txt(<<"s">>)>>), El("div", <<Txt(<<"c">>)>>),
     [El("div", <<Txt(<<"c">>)>>) EXCEPT !.cs.display = "none"],
     [El("span", <<>>) EXCEPT !.w2 = 0, !.h2 = 0],
     [El("input", <<>>) EXCEPT !.placeholder = <<"p">>,
                               !.placeholderColor = Rgb(128, 128, 128)],
     [El("input", <<>>) EXCEPT !.value = <<"v">>, !.placeholder = <<"p">>],
     El("svg", <<>>),
     [El("img", <<>>) EXCEPT !.src = [url |-> "a.png"]]}

RECURSIVE NodeLists(_)
\* the lists of at most n pieces
NodeLists(n) ==
    IF n = 0 THEN {<<>>}
    ELSE NodeLists(n - 1)
         \cup {Append(l, q) : l \in {k \in NodeLists(n - 1) : Len(k) = n - 1}, q \in Pieces}

\* red, half-transparent red and no colour at all, each in several spellings
Spellings ==
    {Rgb(255, 0, 0), Css("modern", 255, 0, 0, 1000), Css("srgb", 1000, 0, 0, 1000),
     Hex(6, 255, 0, 0, 255), Hex(3, 255, 0, 0, 255), Named("red"),
     Css("legacy", 255, 0, 0, 500), Css("modern", 255, 0, 0, 500),
     Css("legacy", 0, 0, 0, 0), Css("modern", 0, 0, 0, 0), Transparent}

\* <p>a</p> in every two spellings of its colour and of its background
Coloured ==
    {[El("p", <<Txt(<<"a">>)>>) EXCEPT !.cs.color = c, !.cs.backgroundColor = bg] :
        c \in Spellings, bg \in Spellings}

\* <p>a</p> with a ::before, 20 or 100 pixels wide, with and without a
\* padding of 10 pixels on both sides
Padded ==
    {[El("p", <<Txt(<<"a">>)>>) EXCEPT !.before = Bullet, !.w2 = w2,
                                      !.cs.paddingLeft = pad, !.cs.paddingRight = pad] :
        w2 \in {40, 200}, pad \in {0, 10}}

\* <p>a</p> and a <div> around it at an opacity of 0, 0.25, 0.5 and 1
Faded ==
    {[e EXCEPT !.cs.opacity = o] :
        e \in {El("p", <<Txt(<<"a">>)>>), El("div", <<El("p", <<Txt(<<"a">>)>>)>>)},
        o \in {0, 250, 500, 1000}}

Fixed(el) == [el EXCEPT !.cs.position = "fixed"]

RECURSIVE Chain(_)
\* n divs, each in the one before, around a text
Chain(n) == IF n = 0 THEN Txt(<<"c">>) ELSE El("div", <<Chain(n - 1)>>)

\* elements of fixed position: one for each way out of serializeDom
FixedPieces ==
    {Fixed(Chain(1)), Fixed([El("div", <<>>) EXCEPT !.w2 = 0, !.h2 = 0]),
     Fixed(El("svg", <<>>)), Fixed(Chain(2)),
     Fixed(El("div", <<Fixed(Chain(1))>>)),
     Fixed([Chain(1) EXCEPT !.cs.display = "none"]),
     Fixed(Chain(StackLimit)), Chain(StackLimit)}

\* a root, fixed or not, around one or two of them
Positioned ==
    {[El("div", kids) EXCEPT !.cs.position = pos] :
        kids \in {<<a>> : a \in FixedPieces}
                 \cup {<<a, b>> : a \in FixedPieces, b \in FixedPieces},
        pos \in {"static", "fixed"}}

Elements ==
    {[El(tag, kids) EXCEPT !.before = b, !.after = a, !.h2 = h2] :
        tag \in {"div", "p"}, kids \in NodeLists(MaxKids),
        b \in {Null, Bullet, Icon}, a \in {Null, Bullet}, h2 \in {1, 40}}
    \cup Coloured
    \cup Positioned
    \cup Padded
    \cup Faded

DomInit ==
    /\ dom \in {[el |-> e, out |-> Null, returned |-> FALSE, threw |-> FALSE,
                 converted |-> {}, absolute |-> {}] : e \in Elements}
    /\ NoMessage
    /\ catalog = {}
    /\ lbf = Null
    /\ ui = Null
    /\ leaf = Null

\* App.tsx:106, the call of serializeDom on the render root
Serialize ==
    /\ ~dom.returned /\ ~dom.threw
    /\ LET pos == serializePositions(dom.el, TRUE, <<>>, 1)
       IN  dom' = [dom EXCEPT
                      !.out = IF pos.threw THEN Null ELSE serializeDom(dom.el, TRUE),
                      !.returned = ~pos.threw, !.threw = pos.threw,
                      !.converted = pos.converted, !.absolute = pos.absolute]
    /\ UNCHANGED <<hvars, lbf, ui, leaf>>

DomNext == Serialize

SpecDom == DomInit /\ [][DomNext]_vars

RECURSIVE IrNodes(_)
\* an IR node and the IR nodes below it
IrNodes(n) == {n} \cup UNION {IrNodes(n.children[i]) : i \in 1..Len(n.children)}

\* ------------------------------------------------------------------------
\* C10: every IR node serializeDom returns, at every depth, pseudo-element
\* and #text nodes included, has a text and no children, or no text.  An
\* element that is read as one text (it has no element child, or only
\* inline ones beside its text, and no <br>) and has a pseudo-element comes
\* out without text, its text in a #text node that is its last child.
\* ------------------------------------------------------------------------
ReadAsText(el) ==
    LET els == SelectSeq(el.childNodes, LAMBDA c : isElement(c) /\ c.tag \notin SKIP_TAGS)
    IN  /\ trim(textContent(el)) # <<>>
        /\ ~ \E i \in 1..Len(el.childNodes) :
                 isElement(el.childNodes[i]) /\ el.childNodes[i].tag = "br"
        /\ \/ els = <<>>
           \/ /\ \A i \in 1..Len(els) : els[i].tag \in INLINE_TEXT_TAGS
              /\ \E i \in 1..Len(el.childNodes) :
                    /\ ~isElement(el.childNodes[i])
                    /\ trim(el.childNodes[i].data) # <<>>

C10_TextOrChildren ==
    (dom.returned /\ dom.out # Null) =>
        /\ \A n \in IrNodes(dom.out) : n.text = <<>> \/ n.children = <<>>
        /\ (ReadAsText(dom.el) /\ (dom.el.before # Null \/ dom.el.after = Bullet)) =>
              /\ dom.out.text = <<>>
              /\ dom.out.children # <<>>
              /\ LET last == dom.out.children[Len(dom.out.children)]
                 IN  /\ last.tagName = "#text"
                     /\ last.text = trim(textContent(dom.el))
                     /\ last.children = <<>>

\* a child two levels down whose text was moved beside its ::before
C10_Witness ==
    /\ dom.returned /\ dom.out # Null
    /\ \E i \in 1..Len(dom.out.children) :
          LET c == dom.out.children[i]
          IN  /\ c.tagName = "p" /\ c.text = <<>>
              /\ Len(c.children) = 2
              /\ c.children[1].tagName = "::before"
              /\ c.children[2].tagName = "#text"
              /\ c.children[2].text = <<"a", "b">>

\* ------------------------------------------------------------------------
\* The plugin UI (src/src/ui/App.tsx).  ui is
\*   html        the textarea: Null when empty, else what the markup holds:
\*               [tailwind, style, scripts, container]
\*   status, error, result   the React state
\*   head        the elements appended to document.head, [kind, attempt]
\*   body        document.body is there
\*   container, containerRef   the render container is in the document; the ref
\*   twLoaded    window.__twLoaded
\*   pc          where the call of handleImport is suspended ("none": no call)
\*   exit        how the last call ended: "returned" or "threw"
\*   attempt     the calls so far;  headBefore: head when the last one began
\*   sent        the import-dom messages posted;  answered: those replied to
\* ------------------------------------------------------------------------
MaxAttempts == 2   \* calls of handleImport in one run

NON_CONTENT_TAGS ==
    {"style", "script", "meta", "link", "title", "noscript", "template", "head"}

\* App.tsx:365-396.  innerHTML on a div drops the html and body tags, so the
\* walk through them (371-372) has nothing to walk through.
findRenderRoot(container) ==
    LET contentEls == SelectSeq(container.childNodes,
                          LAMBDA c : isElement(c) /\ c.tag \notin NON_CONTENT_TAGS)
        visibleEls == SelectSeq(contentEls,
                          LAMBDA c : /\ c.cs.display # "none"
                                     /\ c.cs.visibility # "hidden"
                                     /\ c.w2 > 0 /\ c.h2 > 0)
    IN  IF Len(visibleEls) = 1 THEN visibleEls[1] ELSE container

isClear(c) == c = Transparent \/ c = Css("legacy", 0, 0, 0, 0)

\* App.tsx:404-431; sources are the computed styles of body and html
applyDocumentBackground(domData, sources) ==
    LET colours == SelectSeq(sources, LAMBDA cs : ~isClear(cs.backgroundColor))
        images == SelectSeq(sources, LAMBDA cs : cs.backgroundImage.kind \notin {"empty", "none"})
        bg == IF isClear(domData.style.backgroundColor) /\ colours # <<>>
              THEN colours[1].backgroundColor ELSE domData.style.backgroundColor
        img == IF domData.style.backgroundImage.kind \in {"empty", "none"} /\ images # <<>>
               THEN images[1].backgroundImage ELSE domData.style.backgroundImage
    IN  [domData EXCEPT !.style.backgroundColor = bg, !.style.backgroundImage = img]

\* the computed styles of document.body and document.documentElement: a
\* <style> of the markup, once injected, paints the body white
documentStyles(u) ==
    <<[ComputedStyle EXCEPT !.backgroundColor =
          IF \E i \in 1..Len(u.head) : u.head[i].kind = "style"
          THEN Rgb(255, 255, 255) ELSE @],
      ComputedStyle>>

isImporting(u) == u.status \in {"rendering", "parsing", "building"}

\* canImport without its test of the status
canImportAnyStatus(u) == u.html # Null

canImport(u) == ~isImporting(u) /\ u.html # Null

inHead(u, kind) == [kind |-> kind, attempt |-> u.attempt]

\* App.tsx:129-143, the finally block
cleanup(u) ==
    [u EXCEPT !.head = SelectSeq(@, LAMBDA e :
                          ~(e.attempt = u.attempt /\ e.kind \in {"style", "inline-script"})),
              !.container = IF u.containerRef THEN FALSE ELSE @,
              !.containerRef = FALSE]

\* App.tsx:65-94: the inline scripts run as they are appended, then the
\* style, then the container; document.body.appendChild (89) throws a
\* TypeError when a script has removed the body
prepare(u) ==
    LET scripts == [i \in 1..Len(u.html.scripts) |-> inHead(u, "inline-script")]
        body == u.body /\ \A i \in 1..Len(u.html.scripts) : u.html.scripts[i] # "remove-body"
        injected == [u EXCEPT !.head = @ \o scripts
                                  \o (IF u.html.style THEN <<inHead(u, "style")>> ELSE <<>>),
                              !.body = body]
    IN  IF body
        THEN [injected EXCEPT !.container = TRUE, !.containerRef = TRUE, !.pc = "frames4"]
        ELSE [injected EXCEPT !.pc = "none", !.exit = "threw"]

ZeroSize == "zero-size root"

\* posts the tree without the test of lines 107-110
parseUnchecked(u) ==
    LET domData == serializeDom(findRenderRoot(u.html.container), TRUE)
    IN  cleanup([u EXCEPT !.status = "building",
                          !.sent = Append(@, [type |-> "import-dom", data |-> domData]),
                          !.pc = "none", !.exit = "returned"])

\* App.tsx:104-143: the try from serializeDom on, its catch and its finally
parse(u) ==
    LET domData == serializeDom(findRenderRoot(u.html.container), TRUE)
    IN  IF domData = Null
        THEN cleanup([u EXCEPT !.status = "error", !.error = ZeroSize,
                               !.container = IF u.containerRef THEN FALSE ELSE @,
                               !.containerRef = FALSE,
                               !.pc = "none", !.exit = "returned"])
        ELSE cleanup([u EXCEPT !.status = "building",
                               !.sent = Append(@, [type |-> "import-dom",
                                   data |-> applyDocumentBackground(domData,
                                                documentStyles(u))]),
                               !.pc = "none", !.exit = "returned"])

\* the render container (App.tsx:73-89) with what the markup puts in it
Container(kids, h2) == [El("div", kids) EXCEPT !.w2 = 2880, !.h2 = h2]

Containers ==
    {Container(<<>>, 0),
     Container(<<[El("div", <<>>) EXCEPT !.cs.display = "none"]>>, 0),
     Container(<<[El("div", <<>>) EXCEPT !.h2 = 1]>>, 1),
     Container(<<El("p", <<Txt(<<"a">>)>>)>>, 40),
     Container(<<El("p", <<Txt(<<"a">>)>>), El("img", <<>>)>>, 80)}

\* what the user can paste
Htmls ==
    {[tailwind |-> tw, style |-> st, scripts |-> sc, container |-> c] :
        tw \in BOOLEAN, st \in BOOLEAN,
        sc \in {<<>>, <<"config">>, <<"config", "remove-body">>},
        c \in Containers}

UiInit ==
    /\ ui = [html |-> Null, status |-> "idle", error |-> "", result |-> Null,
             head |-> <<>>, body |-> TRUE, container |-> FALSE, containerRef |-> FALSE,
             twLoaded |-> FALSE, pc |-> "none", exit |-> "none", attempt |-> 0,
             headBefore |-> <<>>, sent |-> <<>>, answered |-> 0]
    /\ NoMessage
    /\ catalog = {}
    /\ lbf = Null
    /\ dom = Null
    /\ leaf = Null

\* App.tsx:198: the user edits the textarea
SetHtml(h) ==
    /\ ~isImporting(ui)
    /\ ui.html # h
    /\ ui' = [ui EXCEPT !.html = h]

\* App.tsx:146-151, the clear button (203-207)
HandleReset ==
    /\ ui.html # Null /\ ~isImporting(ui)
    /\ ui' = [ui EXCEPT !.status = "idle", !.result = Null, !.error = "", !.html = Null]

\* App.tsx:50-94 and 256-272: the button is pressed; handleImport runs to its
\* first await, which is in ensureTailwind when the markup names Tailwind and
\* the script has not loaded yet
HandleImport ==
    /\ canImport(ui) /\ ui.pc = "none"
    /\ ui.attempt < MaxAttempts
    /\ LET u == [ui EXCEPT !.status = "rendering", !.error = "", !.result = Null,
                           !.attempt = @ + 1, !.headBefore = ui.head, !.exit = "none"]
       IN  ui' = IF u.html.tailwind /\ ~u.twLoaded
                 THEN IF \E i \in 1..Len(u.head) : u.head[i].kind = "tailwind-script"
                      THEN [u EXCEPT !.pc = "tailwind-timer"]
                      ELSE [u EXCEPT !.pc = "tailwind-load",
                                     !.head = Append(@, inHead(u, "tailwind-script"))]
                 ELSE prepare(u)

\* App.tsx:266-269 and 274, or 260: the script has loaded and Tailwind has
\* had its 300 ms, or the 600 ms given to a load under way are over
TailwindReady ==
    /\ ui.pc \in {"tailwind-load", "tailwind-timer"}
    /\ ui' = prepare([ui EXCEPT !.twLoaded = IF ui.pc = "tailwind-load" THEN TRUE ELSE @])

\* App.tsx:270: the script failed to load; the rejection leaves handleImport
\* at line 59
TailwindFailed ==
    /\ ui.pc = "tailwind-load"
    /\ ui' = [ui EXCEPT !.pc = "none", !.exit = "threw"]

\* App.tsx:94-101: four frames have passed; the try is entered
FramesWaited ==
    /\ ui.pc = "frames4"
    /\ ui' = [ui EXCEPT !.status = "parsing", !.pc = "frames1"]

\* App.tsx:101-143: one more frame has passed
Parsed ==
    /\ ui.pc = "frames1"
    /\ ui' = parse(ui)

\* App.tsx:35-45: the main thread answers an import-dom
MainReplied(msg) ==
    /\ ui.answered < Len(ui.sent)
    /\ ui' = IF msg.type = "import-done"
             THEN [ui EXCEPT !.answered = @ + 1, !.status = "done",
                             !.result = [frameCount |-> msg.frameCount,
                                         textCount |-> msg.textCount]]
             ELSE [ui EXCEPT !.answered = @ + 1, !.status = "error", !.error = msg.error]

MainReplies ==
    {[type |-> "import-done", frameCount |-> 1, textCount |-> 1],
     [type |-> "import-error", error |-> "Cannot load any font"]}

UiNext ==
    \/ \E h \in Htmls : SetHtml(h) /\ UNCHANGED <<hvars, lbf, dom, leaf>>
    \/ HandleReset /\ UNCHANGED <<hvars, lbf, dom, leaf>>
    \/ HandleImport /\ UNCHANGED <<hvars, lbf, dom, leaf>>
    \/ TailwindReady /\ UNCHANGED <<hvars, lbf, dom, leaf>>
    \/ TailwindFailed /\ UNCHANGED <<hvars, lbf, dom, leaf>>
    \/ FramesWaited /\ UNCHANGED <<hvars, lbf, dom, leaf>>
    \/ Parsed /\ UNCHANGED <<hvars, lbf, dom, leaf>>
    \/ \E msg \in MainReplies : MainReplied(msg) /\ UNCHANGED <<hvars, lbf, dom, leaf>>

SpecUI == UiInit /\ [][UiNext]_vars

\* a call of handleImport has ended
Ended == ui.pc = "none" /\ ui.exit # "none"

\* ------------------------------------------------------------------------
\* C4: when handleImport has ended, by whatever exit, the render container
\* and every <style> and inline <script> injected for the attempt are out of
\* the document.
\* ------------------------------------------------------------------------
C4_NothingLeftBehind ==
    Ended =>
        /\ ~ui.container
        /\ \A i \in 1..Len(ui.head) : ui.head[i].kind \notin {"style", "inline-script"}

\* ------------------------------------------------------------------------
\* C5: when serializeDom gives null for the render root, the attempt ends in
\* the error status with a message, and posts no import-dom.
\* ------------------------------------------------------------------------
NullRoot == serializeDom(findRenderRoot(ui.html.container), TRUE) = Null

C5_NullRootIsFatal ==
    [][(ui.pc = "frames1" /\ NullRoot) =>
          /\ ui'.pc = "none" /\ ui'.exit = "returned"
          /\ ui'.status = "error" /\ ui'.error # ""
          /\ ui'.sent = ui.sent]_vars

\* the attempt on a root of no size has ended
C5_Witness ==
    /\ Ended /\ ui.exit = "returned"
    /\ NullRoot
    /\ ui.status = "error" /\ ui.error = ZeroSize
    /\ ui.sent = <<>>

\* ------------------------------------------------------------------------
\* What the handlers have done
\* ------------------------------------------------------------------------
Requests == DOMAIN pc

RepliesTo(r) == SelectSeq(replies, LAMBDA m : m.req = r)

Done(r) == pc[r] = "done"

\* the handler of r ran to its import-done
Imported(r) == Done(r) /\ stack[r] # <<>>

\* the root frame of r as it stands
Root(r) == stack[r][1].frame

RECURSIVE AllNodes(_)
\* a canvas node and everything below it
AllNodes(n) == {n} \cup UNION {AllNodes(n.children[i]) : i \in 1..Len(n.children)}

RECURSIVE IrAt(_, _)
\* the IR node at a path of child indices
IrAt(node, path) ==
    IF path = <<>> THEN node ELSE IrAt(node.children[path[1]], Tail(path))

RECURSIVE IrCount(_, _)
\* the IR nodes in children i.. of a node and below them
IrCount(kids, i) ==
    IF i > Len(kids) THEN 0
    ELSE 1 + IrCount(kids[i].children, 1) + IrCount(kids, i + 1)

\* the paths of the children whose buildTree threw for r
Logged(r) == {e.path : e \in {f \in Range(console) : f.req = r}}

Parent(path) == SubSeq(path, 1, Len(path) - 1)

\* the paths of the nodes in the tree of r
Emitted(r) == {n.src : n \in AllNodes(Root(r))}

\* ------------------------------------------------------------------------
\* C1: a message of type import-dom gets exactly one reply from its handler,
\* import-done or import-error; a message of another type gets none.  No
\* reply is posted before the handler ends, and a handler that has not ended
\* can always take a step.
\* ------------------------------------------------------------------------
C1_ExactlyOneReply ==
    /\ \A r \in Requests :
          /\ Len(RepliesTo(r)) =
                 IF Done(r) /\ inbox[r].type = "import-dom" THEN 1 ELSE 0
          /\ \A m \in Range(RepliesTo(r)) : m.type \in {"import-done", "import-error"}
    /\ (\A r \in Requests : Done(r)) \/ ENABLED Next

\* an import answered import-done, an import answered import-error and a
\* message of another type, all handled
C1_Witness ==
    /\ \A r \in Requests : Done(r)
    /\ Len(inbox) = 2
    /\ inbox[1].type = "import-dom" /\ inbox[2].type # "import-dom"
    /\ replies # <<>> /\ replies[1].type = "import-done"

\* ------------------------------------------------------------------------
\* C2: when the buildTree of a child throws, at any depth, the import still
\* ends with import-done, the container that holds the child and all its
\* ancestors are in the tree, and every later sibling of the child has been
\* built: it is in the tree, or its own buildTree threw.
\* ------------------------------------------------------------------------
LaterSiblings(data, p) ==
    {Append(Parent(p), j) :
        j \in (p[Len(p)] + 1)..Len(IrAt(data, Parent(p)).children)}

C2_SubtreeFailureIsContained ==
    \A r \in Requests : Imported(r) =>
        \A p \in Logged(r) :
            /\ \E m \in Range(RepliesTo(r)) : m.type = "import-done"
            /\ \A k \in 0..(Len(p) - 1) :
                  \E n \in AllNodes(Root(r)) : n.type = "FRAME" /\ n.src = SubSeq(p, 1, k)
            /\ \A q \in LaterSiblings(inbox[r].data, p) :
                  q \in Emitted(r) \cup Logged(r)

\* a child two levels down threw, and the sibling after it is in the tree
C2_Witness ==
    \E r \in Requests :
        /\ Imported(r)
        /\ \E p \in Logged(r) :
              /\ Len(p) = 2
              /\ \E q \in LaterSiblings(inbox[r].data, p) : q \in Emitted(r)

\* ------------------------------------------------------------------------
\* C3: whatever the catalog, a text leaf whose font ladder is exhausted does
\* not make the import fail: the reply is import-done, no text node of the
\* leaf is on the canvas, and its later siblings have been built.
\* ------------------------------------------------------------------------
ExhaustedLeaves(r) ==
    {p \in Logged(r) : LET n == IrAt(inbox[r].data, p)
                       IN  n.style # Null /\ isTextLeaf(n)}

C3_ExhaustedLeafEmitsNothing ==
    \A r \in Requests : Imported(r) =>
        \A p \in ExhaustedLeaves(r) :
            /\ \E m \in Range(RepliesTo(r)) : m.type = "import-done"
            /\ ~ \E n \in AllNodes(Root(r)) : n.type = "TEXT" /\ n.src = p
            /\ ~ \E e \in Range(page) : e.req = r /\ e.type = "TEXT" /\ e.src = p
            /\ \A q \in LaterSiblings(inbox[r].data, p) :
                  q \in Emitted(r) \cup Logged(r)

\* ------------------------------------------------------------------------
\* C6: tree conservation.  When no buildTree threw, frameCount + textCount
\* of the import-done reply is the number of IR nodes of the message, the
\* root counted or not.
\* ------------------------------------------------------------------------
C6_TreeConservation ==
    \A r \in Requests : (Imported(r) /\ Len(inbox) = 1 /\ Logged(r) = {}) =>
        \A m \in Range(RepliesTo(r)) :
            LET below == IrCount(inbox[r].data.children, 1)
            IN  m.frameCount + m.textCount \in {below, below + 1}

\* ------------------------------------------------------------------------
\* C7: the counts of an import-done reply are those of the nodes built for
\* the request it answers: the frames, svg icons and img rectangles below
\* its root frame, and the text nodes below it.
\* ------------------------------------------------------------------------
OwnFrames(r) ==
    Cardinality({n \in AllNodes(Root(r)) \ {Root(r)} :
                    \/ n.type = "FRAME"
                    \/ n.type = "RECTANGLE" /\ n.name \in {"img", "img (placeholder)"}})

OwnTexts(r) == Cardinality({n \in AllNodes(Root(r)) : n.type = "TEXT"})

C7_CountsAreOfTheRequest ==
    \A r \in Requests : Imported(r) =>
        \A m \in Range(RepliesTo(r)) :
            m.frameCount = OwnFrames(r) /\ m.textCount = OwnTexts(r)

\* the same, of the runs that deliver one message
C7_CountsWhenAlone ==
    Len(inbox) = 1 => C7_CountsAreOfTheRequest

\* ------------------------------------------------------------------------
\* buildTree on one node taken alone (code.ts:426-685): a text leaf, or a
\* container without children, below a frame that is already on the page.
\* Every font asked for is in the catalog, so that loadBestFont returns its
\* first candidate.
\*   leaf.node      the IR node;  leaf.pc: "font", "text", "frame" or "done"
\*   leaf.fontName  what loadBestFont returned at line 436
\*   leaf.out       what buildTree has appended to the parent
\* ------------------------------------------------------------------------
\* a call of loadBestFont whose first load settles against the catalog cat
firstLoad(c, cat) == lbfSettled(c, loadFontAsync(c.candidates[c.k], cat))

\* code.ts:433-436
leafFont(node, cat) ==
    firstLoad(loadBestFont(mapFontFamily(node.style.fontFamily),
                           weightToFigmaStyle(node.style.fontWeight, isItalic(node.style))),
              cat).result

\* code.ts:487
boldFontOf(node, cat) ==
    firstLoad(loadBestFont(mapFontFamily(node.style.fontFamily),
                           weightToFigmaStyle(700, isItalic(node.style))),
              cat).result

RECURSIVE applyBoldSegments(_, _, _)
\* code.ts:480-497, the loop from segment tn.j on
applyBoldSegments(tn, segs, boldFont) ==
    IF tn.j > Len(segs) THEN tn
    ELSE applyBoldSegments(applySegment(tn, segs[tn.j], boldFont), segs, boldFont)

\* code.ts:441-601, from makeText to parent.appendChild
buildLeaf(node, fontName, cat) ==
    finishText(node, applyBoldSegments(startText(node, <<>>, fontName),
                                       textSegmentsOf(node), boldFontOf(node, cat))).node

\* code.ts:433-436: the font of the leaf is loaded
LeafFontLoaded ==
    /\ leaf.pc = "font"
    /\ leaf' = [leaf EXCEPT !.fontName = leafFont(leaf.node, catalog), !.pc = "text"]
    /\ UNCHANGED <<hvars, lbf, dom, ui>>

\* code.ts:441-601: the text node is made, styled and appended
LeafBuilt ==
    /\ leaf.pc = "text"
    /\ leaf' = [leaf EXCEPT !.out = buildLeaf(leaf.node, leaf.fontName, catalog),
                           !.pc = "done"]
    /\ UNCHANGED <<hvars, lbf, dom, ui>>

\* code.ts:657-685 on a container without children
FrameBuilt ==
    /\ leaf.pc = "frame"
    /\ leaf' = [leaf EXCEPT
                   !.out = [containerFrame(leaf.node, <<>>) EXCEPT
                               !.name = leaf.node.tagName, !.visible = leaf.node.visible],
                   !.pc = "done"]
    /\ UNCHANGED <<hvars, lbf, dom, ui>>

LeafNext == LeafFontLoaded \/ LeafBuilt \/ FrameBuilt

\* ---- the nodes the leaf is drawn from ----
\* one colour in the syntaxes and at the alphas the parsers tell apart
Inks ==
    {Rgb(255, 0, 0), Css("legacy", 255, 0, 0, 9), Css("legacy", 255, 0, 0, 10),
     Css("modern", 255, 0, 0, 1000), Css("modern", 255, 0, 0, 5),
     Css("srgb", 1000, 0, 0, 1000), Hex(6, 255, 0, 0, 255), Hex(3, 255, 0, 0, 255),
     Hex(8, 255, 0, 0, 128), Hex(8, 255, 0, 0, 2), Named("red"), Transparent}

Stop(color, pos) == [color |-> color, pos |-> pos]

Gradient(angle, stops) == [kind |-> "linear-gradient", angle |-> angle, stops |-> stops]

Deg(d) == [form |-> "deg", deg |-> d]

Images ==
    {BgNone, [kind |-> "url"],
     \* linear-gradient(0deg, red, blue)
     Gradient(Deg(0), <<Stop(Named("red"), -1), Stop(Named("blue"), -1)>>),
     \* linear-gradient(0deg, rgb(255, 0, 0), rgb(0, 0, 255))
     Gradient(Deg(0), <<Stop(Rgb(255, 0, 0), -1), Stop(Rgb(0, 0, 255), -1)>>),
     \* linear-gradient(rgb(255, 0, 0), rgb(0, 255, 0), rgb(0, 0, 255))
     Gradient([form |-> "absent", deg |-> 180],
              <<Stop(Rgb(255, 0, 0), -1), Stop(Rgb(0, 255, 0), -1), Stop(Rgb(0, 0, 255), -1)>>),
     \* linear-gradient(0.25turn, rgb(255, 0, 0), rgb(0, 0, 255))
     Gradient([form |-> "turn", deg |-> 90],
              <<Stop(Rgb(255, 0, 0), -1), Stop(Rgb(0, 0, 255), -1)>>),
     \* linear-gradient(to right, #ff0000 0%, #0000ff 100%)
     Gradient([form |-> "to", deg |-> 90],
              <<Stop(Hex(6, 255, 0, 0, 255), 0), Stop(Hex(6, 0, 0, 255, 255), 100)>>),
     \* linear-gradient(0deg, rgb(255, 0, 0), blue)
     Gradient(Deg(0), <<Stop(Rgb(255, 0, 0), -1), Stop(Named("blue"), -1)>>),
     \* linear-gradient(0deg, rgb(255, 0, 0), green, rgb(0, 0, 255))
     Gradient(Deg(0), <<Stop(Rgb(255, 0, 0), -1), Stop(Named("green"), -1),
                        Stop(Rgb(0, 0, 255), -1)>>),
     \* linear-gradient(0deg, rgb(255, 0, 0), rgb(0, 0, 255) 50%)
     Gradient(Deg(0), <<Stop(Rgb(255, 0, 0), -1), Stop(Rgb(0, 0, 255), 50)>>),
     \* linear-gradient(45deg, rgb(255, 0, 0))
     Gradient(Deg(45), <<Stop(Rgb(255, 0, 0), -1)>>)}

\* an unstyled block with some padding
LeafStyle == [Style EXCEPT !.paddingLeft = 4, !.paddingRight = 4]

At(node, w, h) == [node EXCEPT !.rect = [x |-> 4, y |-> 6, width |-> w, height |-> h]]

\* text leaves of every layout: 3.5 times the font size is 35 or 56, and 1.5
\* times the estimate of the width of two characters is 30 or 48
LayoutLeaves ==
    {At(IrNode(tag, <<"a", "b">>,
               [LeafStyle EXCEPT !.fontSize = fs, !.display = d, !.alignItems = ai,
                                 !.textAlign = ta, !.backgroundColor = bg], <<>>), w, h) :
        tag \in {"p", "button", "a"}, fs \in {10, 16}, h \in {34, 35, 55, 56},
        w \in {30, 48, 49}, d \in {"block", "inline", "flex", "inline-flex"},
        ai \in {"normal", "center"}, ta \in {"start", "center", "right"},
        bg \in {Transparent, Rgb(255, 0, 0)}}

\* text leaves of every weight; 0 is a weight parseInt reads no number in
WeightLeaves ==
    {At(IrNode("p", <<"a", "b">>,
               [LeafStyle EXCEPT !.fontWeight = fw, !.fontStyle = fst, !.fontFamily = ff],
               <<>>), 100, 20) :
        fw \in {0, 50, 100, 200, 300, 350, 400, 500, 600, 700, 800, 900, 950},
        fst \in {"normal", "italic", "oblique"},
        ff \in {<<"Roboto">>, <<"Pretendard", "sans-serif">>}}

Bordered(style, ink) ==
    [style EXCEPT !.borderTopWidth = 1, !.borderRightWidth = 1, !.borderBottomWidth = 1,
                  !.borderLeftWidth = 1, !.borderStyle = "solid", !.borderColor = ink]

\* text leaves and empty containers of every paint, one property at a time
PaintLeaves ==
    {At(IrNode("p", <<"a", "b">>, [LeafStyle EXCEPT !.color = ink], <<>>), 100, 20) :
        ink \in Inks}
    \cup {At(IrNode(tag, text, [LeafStyle EXCEPT !.backgroundColor = ink,
                                                 !.backgroundImage = img], <<>>), 100, 20) :
             tag \in {"div"}, text \in {<<>>, <<"a", "b">>}, ink \in Inks, img \in Images}
    \cup {At(IrNode("div", text, Bordered(LeafStyle, ink), <<>>), 100, 20) :
             text \in {<<>>, <<"a", "b">>}, ink \in Inks}
    \cup {At([IrNode("p", <<"a", "b">>, LeafStyle, <<>>) EXCEPT
                 !.textSegments = <<[text |-> <<"a">>, bold |-> FALSE, color |-> ink],
                                    [text |-> <<"b">>, bold |-> TRUE, color |-> Null]>>],
             100, 20) :
             ink \in Inks}

LeafInit ==
    /\ leaf \in {[node |-> n, pc |-> IF isTextLeaf(n) THEN "font" ELSE "frame",
                  fontName |-> Null, out |-> Null] :
                    n \in LayoutLeaves \cup WeightLeaves \cup PaintLeaves}
    /\ NoMessage
    /\ catalog = {loadBestFont(mapFontFamily(leaf.node.style.fontFamily),
                               weightToFigmaStyle(w, isItalic(leaf.node.style))).candidates[1] :
                     w \in {leaf.node.style.fontWeight, 700}}
    /\ lbf = Null
    /\ dom = Null
    /\ ui = Null

SpecLeaf == LeafInit /\ [][LeafNext]_vars

\* the leaf has been built
Built == leaf.pc = "done"

\* the text node of a text leaf that has been built, and whether it is boxed
TextOf(out) == IF out.type = "TEXT" THEN out ELSE out.children[1]

Boxed(out) == out.type = "FRAME"

\* ------------------------------------------------------------------------
\* C11: a text leaf is single-line exactly when its height is strictly
\* below 3.5 times its font size, and a single-line text leaf, boxed or
\* plain and whatever its alignment, is laid out in auto-width mode
\* (WIDTH_AND_HEIGHT).  The classification shows where nothing else decides
\* the mode: in a boxed leaf, and in a plain left-aligned block-level leaf
\* wider than 1.5 times its estimate, the text is auto-width exactly when
\* the height is below 3.5 times the font size.
\* ------------------------------------------------------------------------
Below(n) == 2 * n.rect.height < 7 * n.style.fontSize

BlockLevel(n) == n.style.display \in {"block", "flex", "grid", "list-item", "table"}

Wide(n) == 2 * n.rect.width > 3 * n.style.fontSize * Len(n.text)

C11_SingleLineIsAutoWidth ==
    (Built /\ isTextLeaf(leaf.node)) =>
        LET n == leaf.node
            auto == TextOf(leaf.out).textAutoResize = "WIDTH_AND_HEIGHT"
        IN  /\ Below(n) => auto
            /\ Boxed(leaf.out) => (auto <=> Below(n))
            /\ (~Boxed(leaf.out) /\ n.style.textAlign = "start" /\ BlockLevel(n) /\ Wide(n))
                  => (auto <=> Below(n))

\* a boxed, centred leaf one pixel lower than 3.5 times its font size
C11_Witness ==
    /\ Built /\ isTextLeaf(leaf.node)
    /\ Boxed(leaf.out)
    /\ 2 * leaf.node.rect.height = 7 * leaf.node.style.fontSize - 2
    /\ leaf.node.style.textAlign = "center"
    /\ TextOf(leaf.out).textAutoResize = "WIDTH_AND_HEIGHT"

StyleNames ==
    <<"Thin", "ExtraLight", "Light", "Regular", "Medium", "SemiBold", "Bold",
      "ExtraBold", "Black">>

C18_NineWeights ==
    (leaf.fontName # Null /\ leaf.node.style.fontWeight \in {100 * k : k \in 1..9}) =>
        leaf.fontName.style =
            <<StyleNames[leaf.node.style.fontWeight \div 100]>>
            \o (IF leaf.node.style.fontStyle \in {"italic", "oblique"}
                THEN <<"Italic">> ELSE <<>>)

\* ------------------------------------------------------------------------
\* C19: the text of a leaf is centred vertically whenever the source used
\* flex centering (display flex with align-items center), and in every leaf
\* whose tag is button or a, boxed or not.
\* ------------------------------------------------------------------------
C19_VerticalCentering ==
    (Built /\ isTextLeaf(leaf.node)) =>
        LET n == leaf.node
        IN  (\/ n.style.display \in {"flex", "inline-flex"} /\ n.style.alignItems = "center"
             \/ n.tagName \in {"button", "a"})
                => "y-center" \in TextOf(leaf.out).aligned

\* ------------------------------------------------------------------------
\* C13: a colour whose parsed alpha is below 0.01 gives no paint: no fill of
\* a frame, no stroke, no fill of a text and no fill of a segment is a solid
\* paint of an alpha below 0.01, and where such a colour is the background,
\* the border colour, the text colour or the colour of a segment, no solid
\* paint is emitted for it.
\* ------------------------------------------------------------------------
Faint(c) == parseColor(c) # Null /\ parseColor(c).a < 10

RangeFills(n) ==
    UNION {Range(n.ranges[i].fills) :
              i \in {k \in 1..Len(n.ranges) : "fills" \in DOMAIN n.ranges[k]}}

PaintsOf(n) == Range(n.fills) \cup Range(n.strokes) \cup RangeFills(n)

Solid(ps) == {p \in ps : p.type = "SOLID"}

C13_NoPaintBelowThreshold ==
    Built =>
        LET n == leaf.node
            out == leaf.out
            segs == textSegmentsOf(n)
        IN  /\ \A o \in AllNodes(out) : \A p \in Solid(PaintsOf(o)) : p.opacity >= 10
            /\ (isTextLeaf(n) /\ Faint(n.style.color)) => TextOf(out).fills = <<>>
            /\ (Boxed(out) /\ Faint(n.style.backgroundColor)) => Solid(Range(out.fills)) = {}
            /\ (Boxed(out) /\ Faint(n.style.borderColor)) => out.strokes = <<>>
            /\ (isTextLeaf(n) /\ \E i \in 1..Len(segs) :
                                     segs[i].color # Null /\ Faint(segs[i].color))
                  => RangeFills(TextOf(out)) = {}

\* a text whose colour is written with an alpha of 0.009
C13_Witness ==
    /\ Built /\ isTextLeaf(leaf.node)
    /\ leaf.node.style.color.form = "legacy"
    /\ leaf.node.style.color.a = 9
    /\ TextOf(leaf.out).fills = <<>>

\* ------------------------------------------------------------------------
\* C15: a colour stop written without a percentage gets the position
\* index / (count - 1) over the stop arguments, and
\* linear-gradient(0deg, red, blue) gives a gradient of exactly two stops, at
\* 0 and 1.
\* ------------------------------------------------------------------------
\* the syntaxes parseColor and parseHexColor are said to read
Readable(c) == c.form \in {"legacy", "modern", "srgb"} \/ (c.form = "hex" /\ c.n \in {3, 6, 8})

\* the stop arguments a colour can be read from, by index
ReadableStops(img) ==
    SelectSeq([i \in 1..Len(img.stops) |-> i], LAMBDA i : Readable(img.stops[i].color))

\* the fraction p is num / den
Is(p, num, den) == p[1] * den = num * p[2]

C15_StopPositions ==
    (Built /\ Boxed(leaf.out) /\ leaf.node.style.backgroundImage.kind = "linear-gradient") =>
        LET img == leaf.node.style.backgroundImage
            n == Len(img.stops)
            kept == ReadableStops(img)
            f == leaf.out.fills
        IN  /\ Len(kept) >= 2 =>
                  /\ Len(f) = 1 /\ f[1].type = "GRADIENT_LINEAR"
                  /\ Len(f[1].gradientStops) = Len(kept)
                  /\ \A j \in 1..Len(kept) :
                        img.stops[kept[j]].pos < 0 =>
                            Is(f[1].gradientStops[j].position, kept[j] - 1, n - 1)
            /\ img = Gradient(Deg(0), <<Stop(Named("red"), -1), Stop(Named("blue"), -1)>>) =>
                  /\ Len(f) = 1 /\ f[1].type = "GRADIENT_LINEAR"
                  /\ Len(f[1].gradientStops) = 2
                  /\ Is(f[1].gradientStops[1].position, 0, 1)
                  /\ Is(f[1].gradientStops[2].position, 1, 1)

\* ------------------------------------------------------------------------
\* C16: the fill of a frame is the gradient whenever its background image
\* is a linear gradient with at least two stops a colour can be read from;
\* otherwise it is the solid background colour when that gives a paint, and
\* the frame has no fill when it gives none.  The frame is built in every
\* case.
\* ------------------------------------------------------------------------
C16_GradientThenSolid ==
    (leaf.pc = "done" /\ leaf.out.type = "FRAME") =>
        LET s == leaf.node.style
            img == s.backgroundImage
            f == leaf.out.fills
            c == parseColor(s.backgroundColor)
        IN  IF img.kind = "linear-gradient" /\ Len(ReadableStops(img)) >= 2
            THEN Len(f) = 1 /\ f[1].type = "GRADIENT_LINEAR"
            ELSE IF c # Null /\ c.a >= 10
                 THEN Len(f) = 1 /\ f[1].type = "SOLID" /\ f[1].opacity = c.a
                 ELSE f = <<>>

\* a gradient with one readable stop over a solid colour
C16_Witness ==
    /\ leaf.pc = "done" /\ leaf.out.type = "FRAME"
    /\ ~isTextLeaf(leaf.node)
    /\ leaf.node.style.backgroundImage.kind = "linear-gradient"
    /\ Len(ReadableStops(leaf.node.style.backgroundImage)) = 1
    /\ Len(leaf.out.fills) = 1 /\ leaf.out.fills[1].type = "SOLID"

\* ------------------------------------------------------------------------
\* C20: a colour written in legacy comma form, in modern space form, as
\* color(srgb ...) or in hex of 3, 6 or 8 digits is read wherever a colour is
\* parsed (here the text fill, the solid fill and the stroke): it gives a
\* paint of its alpha when that is 0.01 at least; any other string gives no
\* paint.
\* ------------------------------------------------------------------------
AlphaOf(c) ==
    IF c.form = "hex" THEN (IF c.n = 8 THEN (c.a * 1000) \div 255 ELSE 1000) ELSE c.a

\* the paints a colour is to give
Expected(c, ps) ==
    IF Readable(c) /\ AlphaOf(c) >= 10
    THEN Len(ps) = 1 /\ ps[1].type = "SOLID" /\ ps[1].opacity = AlphaOf(c)
    ELSE ps = <<>>

C20_FourSyntaxes ==
    Built =>
        LET n == leaf.node
            out == leaf.out
        IN  /\ isTextLeaf(n) => Expected(n.style.color, TextOf(out).fills)
            /\ (Boxed(out) /\ n.style.backgroundImage.kind = "none")
                  => Expected(n.style.backgroundColor, out.fills)
            /\ (Boxed(out) /\ n.style.borderStyle # "none")
                  => Expected(n.style.borderColor, out.strokes)

\* ------------------------------------------------------------------------
\* C14: two colour strings that denote the same colour are normalized to the
\* same string, whether or not one of them, or both, is in legacy form.
\* Here the two strings are the colour and the background of one element.
\* ------------------------------------------------------------------------
\* the colour a string denotes: red, green and blue in 255000ths of full
\* intensity and the alpha in 255000ths
Denoted(c) ==
    CASE c.form \in {"legacy", "modern"} ->
            <<c.r * 1000, c.g * 1000, c.b * 1000, c.a * 255>>
      [] c.form = "srgb" -> <<c.r * 255, c.g * 255, c.b * 255, c.a * 255>>
      [] c.form = "hex" ->
            <<c.r * 1000, c.g * 1000, c.b * 1000, (IF c.n = 8 THEN c.a ELSE 255) * 1000>>
      [] c.form = "named" ->
            <<NamedColors[c.name][1] * 1000, NamedColors[c.name][2] * 1000,
              NamedColors[c.name][3] * 1000, 255000>>
      [] OTHER -> <<0, 0, 0, 0>>

C14_SameColourSameString ==
    (dom.returned /\ dom.out # Null
        /\ Denoted(dom.el.cs.color) = Denoted(dom.el.cs.backgroundColor)) =>
            dom.out.style.color = dom.out.style.backgroundColor

\* ------------------------------------------------------------------------
\* C17: an element with significant direct text, whose element children are
\* all inline-level tags, and without a line break, gives one text leaf: its
\* text is the merged text content of the element (trimmed at both ends) and
\* its textSegments list, in child-node order, one segment per text node or
\* inline child that is not empty, bold exactly on the inline children of a
\* weight of 700 or more.  The leaf is the node of the element, or its #text
\* child when the element has pseudo-elements.
\* ------------------------------------------------------------------------
Mixed(el) ==
    LET kids == el.childNodes
    IN  /\ \E i \in 1..Len(kids) : ~isElement(kids[i]) /\ trim(kids[i].data) # <<>>
        /\ \E i \in 1..Len(kids) : isElement(kids[i])
        /\ \A i \in 1..Len(kids) : isElement(kids[i]) => kids[i].tag \in INLINE_TEXT_TAGS

RECURSIVE SegmentsFrom(_, _)
SegmentsFrom(kids, i) ==
    IF i > Len(kids) THEN <<>>
    ELSE LET k == kids[i]
         IN  (IF textContent(k) = <<>> THEN <<>>
              ELSE <<[text |-> textContent(k),
                      bold |-> isElement(k) /\ k.cs.fontWeight >= 700,
                      color |-> Null]>>)
             \o SegmentsFrom(kids, i + 1)

C17_MixedContentIsOneLeaf ==
    (dom.returned /\ dom.out # Null /\ Mixed(dom.el)) =>
        LET out == dom.out
            n == Len(out.children)
            textLeaf == IF n = 0 THEN out ELSE out.children[n]
        IN  /\ textLeaf.text = trim(textContent(dom.el))
            /\ textLeaf.children = <<>>
            /\ textLeaf.textSegments = SegmentsFrom(dom.el.childNodes, 1)
            /\ n > 0 => /\ textLeaf.tagName = "#text"
                        /\ out.text = <<>>
                        /\ \A i \in 1..(n - 1) : out.children[i].tagName \in {"::before", "::after"}

\* <p>a<b>b</b></p>
C17_Witness ==
    /\ dom.returned /\ dom.out # Null
    /\ dom.el.childNodes = <<Txt(<<"a">>), Bold>>
    /\ dom.out.text = <<"a", "b">>
    /\ dom.out.children = <<>>
    /\ dom.out.textSegments = <<[text |-> <<"a">>, bold |-> FALSE, color |-> Null],
                                [text |-> <<"b">>, bold |-> TRUE, color |-> Null]>>

\* ------------------------------------------------------------------------
\* What a finished import has made of each IR node
\* ------------------------------------------------------------------------
RECURSIVE IrPaths(_)
\* the paths of the IR nodes below a node
IrPaths(node) ==
    UNION {{<<i>>} \cup {<<i>> \o q : q \in IrPaths(node.children[i])} :
              i \in 1..Len(node.children)}

\* the canvas nodes attached for the IR node at path p to the frame of its parent
AttachedFor(r, p) ==
    UNION {{f.children[i] : i \in {k \in 1..Len(f.children) : f.children[k].src = p}} :
              f \in {g \in AllNodes(Root(r)) : g.type = "FRAME" /\ g.src = Parent(p)
                                               /\ g.src # p}}

SizedTo(n, node) ==
    /\ n.width = Max(node.rect.width, 1) /\ n.height = Max(node.rect.height, 1)
    /\ n.x = node.rect.x /\ n.y = node.rect.y

\* ------------------------------------------------------------------------
\* C21: the buildTree of an svg node does not throw when the canvas cannot
\* read its markup, or when it has none: one node is attached to the parent
\* for it, the vector the canvas made of the markup, or else a placeholder
\* rectangle of the size and at the place of the node.  For an img node a
\* rectangle of the size and at the place of the node is attached in every
\* case.
\* ------------------------------------------------------------------------
C21_SvgAndImgAlwaysAttach ==
    \A r \in Requests : Imported(r) =>
        \A p \in IrPaths(inbox[r].data) :
            LET node == IrAt(inbox[r].data, p)
                made == AttachedFor(r, p)
            IN  (node.style # Null /\ ~isTextLeaf(node) /\ node.tagName \in {"svg", "img"}) =>
                    /\ p \notin Logged(r)
                    /\ Cardinality(made) = 1
                    /\ Cardinality({n \in AllNodes(Root(r)) : n.src = p}) = 1
                    /\ \A n \in made :
                          IF node.tagName = "svg" /\ node.svgHtml # Null /\ node.svgHtml.parses
                          THEN n.type = "FRAME" /\ n.name = "svg-icon"
                          ELSE n.type = "RECTANGLE" /\ n.children = <<>> /\ SizedTo(n, node)

\* an svg without markup, one whose markup does not parse and an img, all
\* three replaced by rectangles
C21_Witness ==
    \E r \in Requests :
        /\ Imported(r)
        /\ Logged(r) = {}
        /\ \E p, q, o \in IrPaths(inbox[r].data) :
              /\ IrAt(inbox[r].data, p) = BrokenSvgLeaf
              /\ IrAt(inbox[r].data, q) = BareSvgLeaf
              /\ IrAt(inbox[r].data, o) = ImgLeaf
              /\ \A n \in AttachedFor(r, p) \cup AttachedFor(r, q) : n.name = "svg-placeholder"
              /\ \A n \in AttachedFor(r, o) : n.name = "img (placeholder)"
              /\ Cardinality(AttachedFor(r, p) \cup AttachedFor(r, q) \cup AttachedFor(r, o)) = 3

\* ------------------------------------------------------------------------
\* C22: the children of a node are built one after another in the order of
\* the IR.  While child i of a container is being built, its children 1 to
\* i - 1 have each been attached or have failed, and nothing has been made
\* for a child after i; the nodes attached to a container are in the order
\* of the IR children, and once the import has ended they are the children
\* that did not fail, each once.
\* ------------------------------------------------------------------------
Last(path) == path[Len(path)]

\* the indices of the IR children the nodes attached to a frame were built for
Indices(frame) == [i \in 1..Len(frame.children) |-> Last(frame.children[i].src)]

Increasing(s) == \A i \in 1..(Len(s) - 1) : s[i] < s[i + 1]

C22_SiblingsInOrder ==
    \A r \in Requests : stack[r] # <<>> =>
        /\ \A k \in 1..Len(stack[r]) :
              LET a == stack[r][k]
                  kids == a.frame.children
              IN  /\ \A i \in 1..Len(kids) : Parent(kids[i].src) = a.path
                  /\ Increasing(Indices(a.frame))
                  /\ \A j \in 1..Len(a.node.children) :
                        LET isAttached == j \in Range(Indices(a.frame))
                            failed == Append(a.path, j) \in Logged(r)
                        IN  IF j < a.i THEN isAttached # failed
                            ELSE ~isAttached /\ ~failed
                  /\ k < Len(stack[r]) => stack[r][k + 1].path = Append(a.path, a.i)
                  /\ \A e \in Range(page) :
                        (e.req = r /\ Len(e.src) > Len(a.path)
                            /\ SubSeq(e.src, 1, Len(a.path)) = a.path)
                        => e.src[Len(a.path) + 1] <= a.i
        /\ Imported(r) =>
              \A f \in AllNodes(Root(r)) :
                  (f.type = "FRAME" /\ ~isTextLeaf(IrAt(inbox[r].data, f.src))
                      /\ IrAt(inbox[r].data, f.src).tagName # "svg") =>
                      /\ Increasing(Indices(f))
                      /\ Range(Indices(f)) =
                            {j \in 1..Len(IrAt(inbox[r].data, f.src).children) :
                                Append(f.src, j) \notin Logged(r)}
                      /\ \A i \in 1..Len(f.children) : Parent(f.children[i].src) = f.src

\* the first child failed, the text after it waited for its font, and the
\* third child was attached after the text
C22_Witness ==
    \E r \in Requests :
        /\ Imported(r)
        /\ Logged(r) = {<<1>>}
        /\ Len(Root(r).children) = 2
        /\ Root(r).children[1].type = "TEXT" /\ Root(r).children[1].src = <<2>>
        /\ Root(r).children[2].src = <<3>>

\* ------------------------------------------------------------------------
\* C23: every IR node that has a text and no children, the root of the
\* message included, becomes a text: when its fonts load, one text node with
\* its characters is in the tree for it, and the textCount of the reply is
\* the number of these nodes (for a message that is handled alone).
\* ------------------------------------------------------------------------
\* the text leaves of the message of r whose fonts load
LoadedLeaves(r) ==
    {p \in IrPaths(inbox[r].data) \cup {<<>>} :
        LET node == IrAt(inbox[r].data, p)
        IN  /\ node.style # Null /\ isTextLeaf(node)
            /\ p \notin Logged(r)
            /\ Range(candidates(mapFontFamily(node.style.fontFamily),
                   weightToFigmaStyle(node.style.fontWeight, isItalic(node.style))))
                       \cap catalog # {}}

TextsFor(r, p) == {n \in AllNodes(Root(r)) : n.type = "TEXT" /\ n.src = p}

C23_EveryTextLeafIsText ==
    \A r \in Requests : (Imported(r) /\ Len(inbox) = 1) =>
        /\ \A p \in LoadedLeaves(r) :
              /\ Cardinality(TextsFor(r, p)) = 1
              /\ \A n \in TextsFor(r, p) : n.characters = IrAt(inbox[r].data, p).text
        /\ \A m \in Range(RepliesTo(r)) : m.textCount = Cardinality(LoadedLeaves(r))

\* the same, of the text leaves below the root
C23_BelowTheRoot ==
    \A r \in Requests : (Imported(r) /\ Len(inbox) = 1 /\ ~isTextLeaf(inbox[r].data)) =>
        C23_EveryTextLeafIsText

\* ------------------------------------------------------------------------
\* C24: when a call of serializeDom has ended, by a return or by an
\* exception out of the serialization of a descendant, no element is left
\* with the position it was given for its measurement: every element of
\* fixed position below the root is fixed again.  The root is never given
\* another position.
\* ------------------------------------------------------------------------
C24_FixedPositionRestored ==
    (dom.returned \/ dom.threw) =>
        /\ dom.absolute = {}
        /\ <<>> \notin dom.converted

\* the same, of the calls that return
C24_RestoredOnReturn ==
    dom.returned =>
        /\ dom.absolute = {}
        /\ <<>> \notin dom.converted

\* a call that returned after it had measured a fixed element and a fixed
\* element inside it
C24_ReturnedWitness ==
    /\ dom.returned
    /\ dom.el.cs.position = "fixed"
    /\ {<<1>>, <<1, 1>>} \subseteq dom.converted

\* ------------------------------------------------------------------------
\* C25: the frame of every container, the root frame included, is as large
\* as the rect of its IR node at least, and reaches the right and the bottom
\* edge of every child of the node.
\* ------------------------------------------------------------------------
\* the frames built for containers in the tree of r
ContainerFrames(r) ==
    {f \in AllNodes(Root(r)) :
        /\ f.type = "FRAME"
        /\ ~isTextLeaf(IrAt(inbox[r].data, f.src))
        /\ IrAt(inbox[r].data, f.src).tagName \notin {"svg", "img"}}

Bounds(f, node) ==
    /\ f.width >= node.rect.width /\ f.height >= node.rect.height
    /\ \A i \in 1..Len(node.children) :
          /\ f.width >= node.children[i].rect.x + node.children[i].rect.width
          /\ f.height >= node.children[i].rect.y + node.children[i].rect.height

C25_FramesBoundTheirChildren ==
    \A r \in Requests : Imported(r) =>
        \A f \in ContainerFrames(r) : Bounds(f, IrAt(inbox[r].data, f.src))

\* the same, of the frames below the root
C25_BelowTheRoot ==
    \A r \in Requests : Imported(r) =>
        \A f \in ContainerFrames(r) \ {Root(r)} : Bounds(f, IrAt(inbox[r].data, f.src))

\* a frame below the root that was made wider than its node for a child
C25_WidenedWitness ==
    \E r \in Requests :
        /\ Imported(r)
        /\ \E f \in ContainerFrames(r) \ {Root(r)} :
              /\ f.width > IrAt(inbox[r].data, f.src).rect.width
              /\ Len(f.children) = 1

\* ------------------------------------------------------------------------
\* C26: the texts of the segments of a leaf, one after another, spell the
\* text of the leaf, so that the range the Reconstructor gives a segment
\* (from the length of the segments before it, over its own length) holds
\* the characters of the segment; and no range the Reconstructor sets ends
\* after the last character of the text node.
\* ------------------------------------------------------------------------
RECURSIVE Concat(_, _)
\* the texts of segments i.. of a list, one after another
Concat(segs, i) == IF i > Len(segs) THEN <<>> ELSE segs[i].text \o Concat(segs, i + 1)

\* the ranges applyBoldSegments sets on the text node made for an IR leaf
RangesOf(n) ==
    applyBoldSegments(startText(n, <<>>, InterRegular), n.textSegments, InterRegular).t.ranges

RangesInside(n) == \A i \in 1..Len(RangesOf(n)) : RangesOf(n)[i].end <= Len(n.text)

RECURSIVE SegmentsSpell(_)
\* in n and below it, the segments spell the text and the ranges lie inside it
SegmentsSpell(n) ==
    /\ n.textSegments # <<>> =>
          Concat(n.textSegments, 1) = n.text /\ RangesInside(n)
    /\ \A i \in 1..Len(n.children) : SegmentsSpell(n.children[i])

RECURSIVE SegmentsInside(_)
\* in n and below it, the ranges lie inside the text
SegmentsInside(n) ==
    /\ n.textSegments # <<>> => RangesInside(n)
    /\ \A i \in 1..Len(n.children) : SegmentsInside(n.children[i])

C26_SegmentsSpellTheText ==
    (dom.returned /\ dom.out # Null) => SegmentsSpell(dom.out)

\* the second half alone: every range lies inside the text
C26_RangesInsideTheText ==
    (dom.returned /\ dom.out # Null) => SegmentsInside(dom.out)

\* <p> a <b>b</b></p>: the bold range would end after the text, and is not set
C26_Witness ==
    /\ dom.returned /\ dom.out # Null
    /\ dom.out.text = <<"a", " ", "b">>
    /\ dom.out.textSegments # <<>>
    /\ RangesOf(dom.out) = <<>>

\* ------------------------------------------------------------------------
\* C27: an import attempt does not stay in an importing status (rendering,
\* parsing, building) once nothing is left to happen for it: when no call of
\* handleImport is under way and every import-dom posted has been answered,
\* the status is not an importing one, so that the Import button is enabled
\* again.  In particular a call that ended on a failure of the Tailwind
\* script or of the preparation of the container has left the status
\* rendering.
\* ------------------------------------------------------------------------
C27_NeverStuckImporting ==
    (ui.pc = "none" /\ ui.answered = Len(ui.sent)) => ~isImporting(ui)

\* the same, of the calls that reached the try of line 96
C27_AfterTheTryIsEntered ==
    (ui.pc = "none" /\ ui.answered = Len(ui.sent) /\ ui.exit # "threw") => ~isImporting(ui)

\* ------------------------------------------------------------------------
\* C28: at most one import-dom is waiting for its reply.  While one is, the
\* status is building and no call of handleImport is under way; a call is
\* under way only in an importing status and with every import-dom before it
\* answered, so that a new import starts only from a status that is not
\* rendering, parsing or building.
\* ------------------------------------------------------------------------
C28_OneOutstandingImport ==
    /\ Len(ui.sent) - ui.answered \in {0, 1}
    /\ ui.answered < Len(ui.sent) => ui.status = "building" /\ ui.pc = "none"
    /\ ui.pc # "none" => isImporting(ui) /\ ui.answered = Len(ui.sent)

\* a second import-dom, posted after the first one was answered
C28_Witness ==
    /\ Len(ui.sent) = 2
    /\ ui.answered = 1
    /\ ui.status = "building"

\* ------------------------------------------------------------------------
\* C29: every IR node serializeDom returns, at every depth, the pseudo-
\* elements, the #text nodes of the runs and the #text nodes of a demoted
\* text included, has a rect of whole numbers that is 1 wide and 1 high at
\* least.
\* ------------------------------------------------------------------------
RECURSIVE EveryRect(_, _)
\* in n and below it, the nodes that are not left out have a rect of 1 by 1
\* at least
EveryRect(n, leftOut) ==
    /\ n.tagName \notin leftOut =>
          /\ n.rect.width \in Nat /\ n.rect.height \in Nat
          /\ n.rect.width >= 1 /\ n.rect.height >= 1
    /\ \A i \in 1..Len(n.children) : EveryRect(n.children[i], leftOut)

C29_NoRectBelowOnePixel ==
    (dom.returned /\ dom.out # Null) => EveryRect(dom.out, {})

\* the same, of the elements and the pseudo-elements
C29_ElementsAndPseudoElements ==
    (dom.returned /\ dom.out # Null) => EveryRect(dom.out, {"#text"})

\* ------------------------------------------------------------------------
\* C30: opacity is carried through unchanged: for every computed opacity
\* from 0 to 1 the style.opacity of the IR node is that value, and the
\* frame that is given the style of the IR node has that opacity (1 being
\* the default of a new frame).
\* ------------------------------------------------------------------------
OpacityCarried ==
    /\ dom.out.style.opacity = dom.el.cs.opacity
    /\ applyFrameStyle(createFrame, dom.out.style).opacity = dom.el.cs.opacity

C30_OpacityCarriedThrough ==
    (dom.returned /\ dom.out # Null) => OpacityCarried

\* the same, of the opacities above 0
C30_AboveZero ==
    (dom.returned /\ dom.out # Null /\ dom.el.cs.opacity > 0) => OpacityCarried

\* an element at half opacity was serialized
C30_HalfWitness ==
    dom.returned /\ dom.out # Null /\ dom.el.cs.opacity = 500
====
